---- MODULE Spec2Model ----
(***************************************************************************)
(* Trust core of wrentheai/trust-infra: the agent registry, the per-agent  *)
(* hash-linked signed event ledger with its admission pipeline, and chain  *)
(* verification.  Request handlers are asynchronous: every database call   *)
(* is an await, so a handler is a sequence of steps and the steps of       *)
(* concurrent requests interleave.  No handler opens a transaction.        *)
(***************************************************************************)
EXTENDS Integers, Sequences, FiniteSets, TLC

\* ---------------------------------------------------------------- bounds
MaxEvents == 2      \* rows the events table may hold

MaxChain == 2       \* length of the lists handed to verifyEventChain directly
MaxCaps == 2
MaxActions == 7        \* outcomes recorded for a fresh agent
MaxScoreCalls == 3     \* outcomes recorded on top of a long history
MaxConcurrent == 3     \* outcomes recorded by concurrent calls
MaxDomainOutcomes == 1 \* outcomes recorded while domain scores are set
MaxOutcomes == 2       \* outcomes accepted by POST /outcomes
maxRequests == 2       \* config.rateLimit.max
MaxBucketCount == 3    \* requests counted in one bucket
MaxRateClock == 141000 \* the last instant of the rate limiter's clock

\* ---------------------------------------------------------------- values
AgentSlots == {"p1", "p2"}            \* request slots serving POST /events
AdminSlots == {"adm"}                 \* request slots serving service-key calls
Procs == AgentSlots \cup AdminSlots
Keys == {"k1", "k2"}                  \* Ed25519 key pairs (public key = name)
Payloads == {"pl1", "pl2"}            \* event payload objects
EventTypes == {"input_received"}      \* event_type enum values in use
Undefined == "undefined"              \* an absent optional string / SQL NULL
CorrIds == {Undefined, "c1"}          \* correlationId: absent or a uuid
\* the (payload, correlationId) pairs clients submit
Bodies == {<<"pl1", Undefined>>}
Reasons == {Undefined, "r1"}          \* revokeAgent's optional reason
\* the publicKey strings registerAgent is called with: the lower-case hex of
\* each key, the upper-case spelling of k1's hex, and a string that is not hex
PublicKeyHex == Keys \cup {"K1", "xyz"}
Null == <<>>                          \* prev_hash = null
NoTs == 0                             \* request.timestamp absent
Times == 1..2                         \* clock readings and client timestamps (ms)

CapTimes == 1..3                      \* clock readings and expiry times (ms)
Actions == {"tool:read", "tool:write"}    \* actions asked about
ScopeKeys == Actions \cup {"tool:*"}  \* keys a scope object may have
\* scope objects minted: a key with a truthy value, a wildcard with an
\* object value, a key with the value false
Scopes == {[k \in ScopeKeys |-> IF k = "tool:read" THEN "true" ELSE Undefined],
           [k \in ScopeKeys |-> IF k = "tool:*" THEN "limit" ELSE Undefined],
           [k \in ScopeKeys |-> IF k = "tool:read" THEN "false" ELSE Undefined]}
NoDate == 0                           \* revoked_at IS NULL

signatureTimestampWindow == 300       \* config default, in seconds
AuthClock == {400000, 400999, 401000} \* Date.now() readings (ms) while requests are authenticated
\* X-Timestamp header values: absent, not a number, or Unix seconds around
\* both edges of the window
TimestampHeaders ==
    {[kind |-> "missing", value |-> 0], [kind |-> "nan", value |-> 0]}
    \cup {[kind |-> "num", value |-> v] : v \in {99, 100, 101, 400, 700, 701, 702}}
RequestBodies == {"body1", "body2"}   \* JSON.stringify(request.body)
Malformed == <<"sig", "malformed">>   \* an X-Signature that is not 64 bytes of hex
Missing == <<>>                       \* a header that was not sent

\* ---------------------------------------------------------------- crypto
\* sha256 over a string: collision-free, so the digest is the tagged preimage
sha256(data) == <<"sha256", data>>

\* deriveAgentId: agent_id = sha256 of the raw public key bytes
deriveAgentId(publicKey) == sha256(publicKey)

AgentIds == {deriveAgentId(k) : k \in Keys}

\* ed25519.signAsync: a signature names the key pair and the signed bytes
ed25519Sign(messageBytes, privateKey) == <<"sig", privateKey, messageBytes>>

\* ed25519.verifyAsync: true iff made by the matching private key over
\* exactly these bytes
ed25519Verify(signatureBytes, messageBytes, publicKey) ==
    signatureBytes = ed25519Sign(messageBytes, publicKey)

\* a hex string spelling the same digits differently from bytesToHex's
\* output: in upper case, or followed by characters that are not hex
respelled(hex) == <<"respelled", hex>>

\* hexToBytes: Buffer.from(hex, 'hex') ignores case and stops at the first
\* character that is not a hex digit (bytesToHex's output stands for its bytes)
hexToBytes(hex) ==
    IF Len(hex) = 2 /\ hex[1] = "respelled" THEN hex[2] ELSE hex

\* prepareForSigning: the event without its hash and signature fields
prepareForSigning(event) ==
    [agent_id |-> event.agent_id, event_type |-> event.event_type,
     timestamp |-> event.timestamp, prev_hash |-> event.prev_hash,
     payload |-> event.payload, correlation_id |-> event.correlation_id]

\* a canonical form that leaves the payload out
toCanonicalJSONNoPayload(obj) ==
    <<<<"agent_id", obj.agent_id>>>>
    \o (IF obj.correlation_id = Undefined THEN <<>>
        ELSE <<<<"correlation_id", obj.correlation_id>>>>)
    \o <<<<"event_type", obj.event_type>>,
         <<"prev_hash", obj.prev_hash>>, <<"timestamp", obj.timestamp>>>>

\* toCanonicalJSON: keys in sorted order; an undefined correlation_id is
\* left out, a null prev_hash is written out
toCanonicalJSON(obj) ==
    <<<<"agent_id", obj.agent_id>>>>
    \o (IF obj.correlation_id = Undefined THEN <<>>
        ELSE <<<<"correlation_id", obj.correlation_id>>>>)
    \o <<<<"event_type", obj.event_type>>, <<"payload", obj.payload>>,
         <<"prev_hash", obj.prev_hash>>, <<"timestamp", obj.timestamp>>>>

\* signEvent: hash and signature over the canonical JSON of the unsigned event
signEvent(event, privateKey) ==
    LET canonicalJSON == toCanonicalJSON(prepareForSigning(event))
    IN  [agent_id |-> event.agent_id, event_type |-> event.event_type,
         timestamp |-> event.timestamp, prev_hash |-> event.prev_hash,
         payload |-> event.payload, correlation_id |-> event.correlation_id,
         hash |-> sha256(canonicalJSON),
         signature |-> ed25519Sign(canonicalJSON, privateKey)]

\* a verifyEvent that checks the hash and skips the signature
verifyEventErrorsHashOnly(event, publicKeyHex) ==
    LET canonicalJSON == toCanonicalJSON(prepareForSigning(event))
    IN  IF sha256(canonicalJSON) # event.hash THEN {"Hash mismatch"} ELSE {}

\* verifyEvent: the errors it collects (valid iff none)
verifyEventErrors(event, publicKeyHex) ==
    LET canonicalJSON == toCanonicalJSON(prepareForSigning(event))
    IN  (IF sha256(canonicalJSON) # event.hash THEN {"Hash mismatch"} ELSE {})
        \cup
        (IF ~ed25519Verify(hexToBytes(event.signature), canonicalJSON, publicKeyHex)
         THEN {"Invalid Ed25519 signature"} ELSE {})

verifyEvent(event, publicKeyHex) ==
    [valid |-> verifyEventErrors(event, publicKeyHex) = {},
     errors |-> verifyEventErrors(event, publicKeyHex)]

\* ---------------------------------------------------------------- state
VARIABLES
    agents,     \* table agents: a set of rows
    events,     \* table events: the rows in insertion order (id = position)
    now,        \* the wall clock
    pc,         \* per request slot: the await the handler is suspended at
    loc,        \* per request slot: the handler's local variables
    reply,      \* per request slot: the outcome of the finished handler
    capabilities, \* table capabilities: the rows in insertion order (id = position)
    reputation, \* table reputation: agent_id -> row
    rateLimitStore, \* the rate limiter's Map: key -> [count, resetAt]
    lastEventHash   \* the TrustClient's field: the head it signs over

vars == <<agents, events, now, pc, loc, reply, capabilities, reputation,
          rateLimitStore, lastEventHash>>

\* the state of the server process and of the client outside the database
\* and the request slots
processState == <<rateLimitStore, lastEventHash>>

NoLoc == [agentId |-> Undefined]

\* new Map(): no key has a bucket
emptyStore == [key \in {} |-> 0]
NoReply == [op |-> "none", outcome |-> "none"]

\* ---------------------------------------------------------------- repositories
\* AgentRepository.findById: the rows with this agent_id (none or one)
findById(agentId) == {a \in agents : a.agentId = agentId}

\* AgentRepository.findByPublicKey
findByPublicKey(publicKey) == {a \in agents : a.publicKey = publicKey}

eventRows == {events[i] : i \in 1..Len(events)}

rowsOfAgent(agentId) == {e \in eventRows : e.agentId = agentId}

\* ORDER BY timestamp, id: e1 sorts before e2
orderedBefore(e1, e2) ==
    \/ e1.timestamp < e2.timestamp
    \/ e1.timestamp = e2.timestamp /\ e1.id < e2.id

\* EventRepository.getLastEventForAgent:
\* ORDER BY timestamp DESC, id DESC LIMIT 1 (<<>> when there is no row)
getLastEventForAgent(agentId) ==
    LET rows == rowsOfAgent(agentId)
    IN  IF rows = {} THEN <<>>
        ELSE <<CHOOSE e \in rows : \A o \in rows \ {e} : orderedBefore(o, e)>>

RECURSIVE sortRows(_)
sortRows(rows) ==
    IF rows = {} THEN <<>>
    ELSE LET first == CHOOSE e \in rows : \A o \in rows \ {e} : orderedBefore(e, o)
         IN  <<first>> \o sortRows(rows \ {first})

\* EventRepository.getAgentChain: ORDER BY timestamp ASC, id ASC
getAgentChain(agentId) == sortRows(rowsOfAgent(agentId))

\* events.hash UNIQUE: an INSERT of this hash is refused
hashTaken(hash) == \E e \in eventRows : e.hash = hash

\* EventService.getLastEventHash
getLastEventHash(agentId) ==
    LET lastEvent == getLastEventForAgent(agentId)
    IN  IF lastEvent # <<>> THEN lastEvent[1].hash ELSE Null

\* ---------------------------------------------------------------- chain verification
\* verifyEventChain's loop body: the kinds of violation found at index i
\* (0-based; evs is 1-based)
chainErrorsAt(evs, i, publicKeyHex) ==
    (IF i = 0 /\ evs[1].prev_hash # Null THEN {"first prev_hash not null"} ELSE {})
    \cup verifyEventErrors(evs[i + 1], publicKeyHex)
    \cup (IF i > 0 /\ evs[i + 1].prev_hash # evs[i].hash
          THEN {"prev_hash mismatch"} ELSE {})

\* a verifyEventChain that returns at the first event with a violation
verifyEventChainFirstOnly(evs, publicKeyHex) ==
    IF Len(evs) = 0
    THEN [valid |-> TRUE, errors |-> {}, totalEvents |-> 0, firstInvalidEvent |-> -1]
    ELSE LET bad == {i \in 0..(Len(evs) - 1) : chainErrorsAt(evs, i, publicKeyHex) # {}}
             first == IF bad = {} THEN -1 ELSE CHOOSE i \in bad : \A j \in bad : i <= j
         IN  [valid |-> bad = {},
              errors |-> IF bad = {} THEN {}
                         ELSE {<<first, k>> : k \in chainErrorsAt(evs, first, publicKeyHex)},
              totalEvents |-> Len(evs),
              firstInvalidEvent |-> first]

\* verifyEventChain: errors as (index, kind) pairs; firstInvalidEvent is -1
\* where the code leaves it undefined
verifyEventChain(evs, publicKeyHex) ==
    IF Len(evs) = 0
    THEN [valid |-> TRUE, errors |-> {}, totalEvents |-> 0, firstInvalidEvent |-> -1]
    ELSE LET errs == {<<i, k>> \in (0..(Len(evs) - 1)) \X
                          {"first prev_hash not null", "Hash mismatch",
                           "Invalid Ed25519 signature", "prev_hash mismatch"} :
                          k \in chainErrorsAt(evs, i, publicKeyHex)}
             bad == {e[1] : e \in errs}
         IN  [valid |-> errs = {},
              errors |-> errs,
              totalEvents |-> Len(evs),
              firstInvalidEvent |->
                  IF bad = {} THEN -1
                  ELSE CHOOSE i \in bad : \A j \in bad : i <= j]

\* verifyAgentChain's conversion of a stored row to SignedEvent form
\* (timestamp.toISOString(), correlationId || undefined)
toSignedEvent(e) ==
    [agent_id |-> e.agentId, event_type |-> e.eventType,
     timestamp |-> e.timestamp, prev_hash |-> e.prevHash, hash |-> e.hash,
     payload |-> e.payload,
     correlation_id |-> IF e.correlationId # Undefined THEN e.correlationId
                        ELSE Undefined,
     signature |-> e.signature]

\* EventService.verifyAgentChain for a registered agent
verifyAgentChain(agentId) ==
    LET agent == CHOOSE a \in findById(agentId) : TRUE
        chain == getAgentChain(agentId)
        signedEvents == [i \in 1..Len(chain) |-> toSignedEvent(chain[i])]
    IN  verifyEventChain(signedEvents, agent.publicKey)

\* the reputation row the agents table's insert trigger creates (column
\* defaults); overall_score in hundredths, the rates in ten-thousandths
\* the breakdown column's default, the JSON object {}
emptyBreakdown == [domain \in {} |-> 0]

freshReputation ==
    [overallScore |-> 5000, totalActions |-> 0, successRate |-> 0,
     failureRate |-> 0, harmfulActions |-> 0, userCorrections |-> 0,
     breakdown |-> emptyBreakdown]

\* trigger agent_reputation_init: AFTER INSERT ON agents
init_agent_reputation(agentId) == (agentId :> freshReputation) @@ reputation

\* ---------------------------------------------------------------- handlers
Init ==
    /\ agents = {}
    /\ events = <<>>
    /\ now = 1
    /\ pc = [p \in Procs |-> "idle"]
    /\ loc = [p \in Procs |-> NoLoc]
    /\ reply = [p \in Procs |-> NoReply]
    /\ rateLimitStore = emptyStore
    /\ lastEventHash = Null
    /\ reputation = [a \in {r.agentId : r \in agents} |-> freshReputation]
    /\ capabilities = <<>>

\* the handler of slot p ends (returns or throws) with reply r
Finish(p, r) ==
    /\ pc' = [pc EXCEPT ![p] = "done"]
    /\ loc' = [loc EXCEPT ![p] = NoLoc]
    /\ reply' = [reply EXCEPT ![p] = r]
    /\ UNCHANGED processState

\* the handler of slot p suspends at the await `at` with locals l
Suspend(p, at, l) ==
    /\ pc' = [pc EXCEPT ![p] = at]
    /\ loc' = [loc EXCEPT ![p] = l]
    /\ UNCHANGED <<reply, processState>>

\* the response is sent and the slot is free for the next request
Return(p) ==
    /\ pc[p] = "done"
    /\ pc' = [pc EXCEPT ![p] = "idle"]
    /\ reply' = [reply EXCEPT ![p] = NoReply]
    /\ UNCHANGED <<agents, events, now, loc, capabilities, reputation, processState>>

\* Date.now() / new Date() advance
Tick ==
    /\ now + 1 \in Times
    /\ now' = now + 1
    /\ UNCHANGED <<agents, events, pc, loc, reply, capabilities, reputation,
                   processState>>

\* ---- AgentService.registerAgent
\* /^[0-9a-f]{64}$/i
validPublicKeyFormat(publicKey) == publicKey # "xyz"

\* Buffer.from(publicKey, 'hex'): both spellings of a key decode to its bytes
bufferFromHex(publicKey) == IF publicKey = "K1" THEN "k1" ELSE publicKey

\* up to the await of findByPublicKey
RegisterFindByPublicKey(p, publicKeys) ==
    /\ pc[p] = "idle"
    /\ \E publicKey \in publicKeys :
         IF ~validPublicKeyFormat(publicKey)
         THEN Finish(p, [op |-> "registerAgent", outcome |-> "Invalid public key format"])
         ELSE IF findByPublicKey(publicKey) # {}
         THEN Finish(p, [op |-> "registerAgent", outcome |-> "already registered"])
         ELSE Suspend(p, "register_create", [publicKey |-> publicKey])
    /\ UNCHANGED <<agents, events, now, capabilities, reputation>>

\* the row AgentRepository.create inserts (defaults of the agents table)
newAgentRow(publicKey) ==
    [agentId |-> deriveAgentId(bufferFromHex(publicKey)), publicKey |-> publicKey,
     status |-> "active", metadata |-> [revocation_reason |-> Undefined],
     revokedAt |-> 0]

\* an agents table without its key constraints
noAgentKeys(row) == FALSE

\* agents.agent_id PRIMARY KEY, agents.public_key UNIQUE: the row collides
agentKeysTaken(row) ==
    \E a \in agents : a.publicKey = row.publicKey \/ a.agentId = row.agentId

\* agentRepo.create: INSERT, refused by the primary key / unique public_key
RegisterCreate(p) ==
    /\ pc[p] = "register_create"
    /\ LET publicKey == loc[p].publicKey
       IN  IF agentKeysTaken(newAgentRow(publicKey))
           THEN /\ Finish(p, [op |-> "registerAgent", outcome |-> "duplicate key"])
                /\ UNCHANGED <<agents, reputation>>
           ELSE /\ agents' = agents \cup {newAgentRow(publicKey)}
                /\ reputation' = init_agent_reputation(newAgentRow(publicKey).agentId)
                /\ Finish(p, [op |-> "registerAgent", outcome |-> "ok"])
    /\ UNCHANGED <<events, now, capabilities>>

\* ---- AgentService.revokeAgent
\* getAgent and the status check
RevokeGetAgent(p, reasons) ==
    /\ pc[p] = "idle"
    /\ \E agentId \in AgentIds, reason \in reasons :
         LET found == findById(agentId)
         IN  IF found = {}
             THEN Finish(p, [op |-> "revokeAgent", outcome |-> "Agent not found"])
             ELSE LET agent == CHOOSE a \in found : TRUE
                  IN  IF agent.status = "revoked"
                      THEN Finish(p, [op |-> "revokeAgent",
                                      outcome |-> "Agent is already revoked"])
                      ELSE IF reason # Undefined
                      THEN Suspend(p, "revoke_updateMetadata",
                                   [agentId |-> agentId, reason |-> reason,
                                    metadata |-> agent.metadata])
                      ELSE Suspend(p, "revoke_revoke", [agentId |-> agentId])
    /\ UNCHANGED <<agents, events, now, capabilities, reputation>>

\* agentRepo.updateMetadata: UPDATE agents SET metadata WHERE agent_id
updateMetadata(agentId, metadata) ==
    {IF a.agentId = agentId THEN [a EXCEPT !.metadata = metadata] ELSE a : a \in agents}

RevokeUpdateMetadata(p) ==
    /\ pc[p] = "revoke_updateMetadata"
    /\ agents' = updateMetadata(loc[p].agentId,
                     [loc[p].metadata EXCEPT !.revocation_reason = loc[p].reason])
    /\ Suspend(p, "revoke_revoke", [agentId |-> loc[p].agentId])
    /\ UNCHANGED <<events, now, capabilities, reputation>>

\* a revoke that sets the status alone
revokeStatusOnly(agentId) ==
    {IF a.agentId = agentId THEN [a EXCEPT !.status = "revoked"] ELSE a : a \in agents}

\* agentRepo.revoke: UPDATE agents SET status, revoked_at WHERE agent_id
revoke(agentId) ==
    {IF a.agentId = agentId THEN [a EXCEPT !.status = "revoked", !.revokedAt = now]
     ELSE a : a \in agents}

\* a revokeAgent that revokes the agent's active capabilities with it
RevokeRevokeWithCapabilities(p) ==
    /\ pc[p] = "revoke_revoke"
    /\ agents' = revoke(loc[p].agentId)
    /\ capabilities' =
          [i \in DOMAIN capabilities |->
              IF capabilities[i].agentId = loc[p].agentId
                 /\ capabilities[i].status = "active"
              THEN [capabilities[i] EXCEPT !.status = "revoked", !.revokedAt = now]
              ELSE capabilities[i]]
    /\ Finish(p, [op |-> "revokeAgent", outcome |-> "ok"])
    /\ UNCHANGED <<events, now, reputation>>

RevokeRevoke(p) ==
    /\ pc[p] = "revoke_revoke"
    /\ agents' = revoke(loc[p].agentId)
    /\ Finish(p, [op |-> "revokeAgent", outcome |-> "ok"])
    /\ UNCHANGED <<events, now, capabilities, reputation>>

\* ---- EventService.appendEvent
\* admissions that passed verification and are about to insert
insertsInFlight == {q \in Procs : pc[q] = "append_insert"}

\* what the caller of appendEvent gets back: the outcome (the Error's message
\* class, or ok), verifyEvent's errors, and what kind of request it was
appendReply(outcome, errors, about) ==
    [op |-> "appendEvent", outcome |-> outcome, errors |-> errors,
     wrongKey |-> about.wrongKey, staleHead |-> about.staleHead,
     resubmitted |-> about.resubmitted]

NothingAbout == [wrongKey |-> FALSE, staleHead |-> FALSE, resubmitted |-> FALSE]

\* step 1: agentRepo.findById and the status check
AppendFindAgent(p) ==
    /\ pc[p] = "idle"
    /\ \E agentId \in AgentIds :
         LET found == findById(agentId)
         IN  IF found = {}
             THEN Finish(p, appendReply("Agent not found", {}, NothingAbout))
             ELSE LET agent == CHOOSE a \in found : TRUE
                  IN  IF agent.status # "active"
                      THEN Finish(p, appendReply("Agent is revoked", {}, NothingAbout))
                      ELSE Suspend(p, "append_getLast",
                                   [agentId |-> agentId, publicKey |-> agent.publicKey])
    /\ UNCHANGED <<agents, events, now, capabilities, reputation>>

\* the heads a client may have signed over: null or any stored hash
knownHashes == {Null} \cup {e.hash : e \in eventRows}

\* TrustClient.appendEvent's request body for the unsigned event it signed;
\* prev_hash travels only inside the signed bytes, the timestamp is optional
requestBody(signed, withTimestamp) ==
    [agentId |-> signed.agent_id, eventType |-> signed.event_type,
     timestamp |-> IF withTimestamp THEN signed.timestamp ELSE NoTs,
     payload |-> signed.payload, correlationId |-> signed.correlation_id,
     hash |-> signed.hash, signature |-> signed.signature]

\* request.timestamp || new Date()
timestampOrNow(request) ==
    IF request.timestamp # NoTs THEN request.timestamp ELSE now

\* step 3: the SignedEvent the service rebuilds around its own prevHash
rebuiltSignedEvent(request, prevHash) ==
    [agent_id |-> request.agentId, event_type |-> request.eventType,
     timestamp |-> timestampOrNow(request), prev_hash |-> prevHash,
     payload |-> request.payload, correlation_id |-> request.correlationId,
     hash |-> request.hash, signature |-> request.signature]

\* the request repeats an event the agent already has on the ledger
isStored(request) ==
    \E e \in rowsOfAgent(request.agentId) :
        e.hash = request.hash /\ e.signature = request.signature

\* steps 2-5: getLastEventForAgent, rebuild, verifyEvent, prev_hash check.
\* The request's remaining fields are first read here.
AppendGetLast(p) ==
    /\ pc[p] = "append_getLast"
    /\ \E privateKey \in Keys, eventType \in EventTypes, timestamp \in Times,
          prev_hash \in knownHashes, body \in Bodies, withTimestamp \in BOOLEAN :
         LET agentId == loc[p].agentId
             payload == body[1]
             correlation_id == body[2]
             signed == signEvent([agent_id |-> agentId, event_type |-> eventType,
                                  timestamp |-> timestamp, prev_hash |-> prev_hash,
                                  payload |-> payload,
                                  correlation_id |-> correlation_id], privateKey)
             request == requestBody(signed, withTimestamp)
             lastEvent == getLastEventForAgent(agentId)
             prevHash == IF lastEvent # <<>> THEN lastEvent[1].hash ELSE Null
             signedEvent == rebuiltSignedEvent(request, prevHash)
             verification == verifyEvent(signedEvent, loc[p].publicKey)
             about == [wrongKey |-> privateKey # loc[p].publicKey,
                       staleHead |-> prev_hash # prevHash,
                       resubmitted |-> isStored(request)]
         IN  IF ~verification.valid
             THEN Finish(p, appendReply("Event verification failed",
                                        verification.errors, about))
             ELSE IF signedEvent.prev_hash # prevHash
             THEN Finish(p, appendReply("Hash chain broken", {}, about))
             ELSE /\ Len(events) + Cardinality(insertsInFlight) < MaxEvents
                  /\ Suspend(p, "append_insert",
                          [agentId |-> agentId, prevHash |-> prevHash,
                           request |-> request, about |-> about])
    /\ UNCHANGED <<agents, events, now, capabilities, reputation>>

\* step 6: the NewEvent row handed to eventRepo.append.  Its timestamp is a
\* second evaluation of request.timestamp || new Date(), made after the await
\* of verifyEvent
newEvent(request, prevHash) ==
    [id |-> Len(events) + 1,
     agentId |-> request.agentId, eventType |-> request.eventType,
     timestamp |-> timestampOrNow(request), prevHash |-> prevHash,
     hash |-> request.hash, payload |-> request.payload,
     signature |-> request.signature, correlationId |-> request.correlationId]

\* an upsert keyed on the agent: a later event replaces the agent's row
appendUpsert(data) ==
    IF \E i \in 1..Len(events) : events[i].agentId = data.agentId
    THEN LET i == CHOOSE k \in 1..Len(events) : events[k].agentId = data.agentId
         IN  [events EXCEPT ![i] = data]
    ELSE Append(events, data)

\* EventRepository.append: the table after INSERT ... RETURNING
append(data) == Append(events, data)

\* eventRepo.append, refused by UNIQUE(hash)
AppendInsert(p) ==
    /\ pc[p] = "append_insert"
    /\ LET row == newEvent(loc[p].request, loc[p].prevHash)
           about == [loc[p].about EXCEPT !.resubmitted = isStored(loc[p].request)]
       IN  IF hashTaken(row.hash)
           THEN /\ Finish(p, appendReply("duplicate key", {}, about))
                /\ UNCHANGED events
           ELSE /\ events' = append(row)
                /\ Finish(p, appendReply("ok", {}, about))
    /\ UNCHANGED <<agents, now, capabilities, reputation>>

\* ---------------------------------------------------------------- capabilities
capabilityRows == {capabilities[i] : i \in 1..Len(capabilities)}

\* CapabilityRepository.findById (<<>> when there is no row)
findCapabilityById(id) ==
    IF id \in 1..Len(capabilities) THEN <<capabilities[id]>> ELSE <<>>

\* CapabilityRepository.findByTokenHash (token_hash is unique)
findByTokenHash(tokenHash) ==
    IF \E c \in capabilityRows : c.tokenHash = tokenHash
    THEN <<CHOOSE c \in capabilityRows : c.tokenHash = tokenHash>>
    ELSE <<>>

\* a findActiveForAgent without the status filter
findForAgentAnyStatus(agentId, nowJs) ==
    {c \in capabilityRows : c.agentId = agentId /\ c.expiresAt >= nowJs}

\* CapabilityRepository.findActiveForAgent: the rows selected (the query has
\* no ORDER BY); nowJs is the new Date() taken before the query is sent
findActiveForAgent(agentId, nowJs) ==
    {c \in capabilityRows :
        c.agentId = agentId /\ c.status = "active" /\ c.expiresAt >= nowJs}

\* JavaScript truthiness of a scope value
truthy(value) == value \notin {Undefined, "false"}

\* `${action.split(':')[0]}:*`
wildcardKey(action) == "tool:*"

\* checkPermission's loop body for one capability: the key that grants the
\* action, or Undefined
grantingKey(cap, action) ==
    IF truthy(cap.scope[action]) THEN action
    ELSE IF truthy(cap.scope[wildcardKey(action)]) THEN wildcardKey(action)
    ELSE Undefined

\* a table without the valid_expiration constraint
noExpirationCheck(row) == TRUE

\* capabilities CHECK valid_expiration (expires_at > issued_at)
validExpiration(row) == row.expiresAt > row.issuedAt

\* the capability a reply speaks of when there is none
NoCapability == <<>>

capabilityReply(op, outcome, fields) ==
    [op |-> op, outcome |-> outcome, fields |-> fields]

\* ---- CapabilityService.mintCapability
mintsInFlight == {q \in Procs : pc[q] = "mint_create"}

\* up to the await of capabilityRepo.create: token, tokenHash, newCapability
MintCapability(p) ==
    /\ pc[p] = "idle"
    /\ Len(capabilities) + Cardinality(mintsInFlight) < MaxCaps
    /\ \E agentId \in AgentIds, scope \in Scopes, expiresAt \in CapTimes :
         LET token == <<"token", p, Len(capabilities)>>
         IN  Suspend(p, "mint_create",
                     [token |-> token,
                      newCapability |->
                          [agentId |-> agentId, scope |-> scope, issuedBy |-> "admin",
                           issuedAt |-> now, expiresAt |-> expiresAt,
                           status |-> "active", tokenHash |-> sha256(token),
                           revokedAt |-> NoDate]])
    /\ UNCHANGED <<agents, events, now, capabilities, reputation>>

\* CapabilityRepository.create: INSERT ... RETURNING, refused by the foreign
\* key, the unique token_hash or the valid_expiration CHECK
MintCreate(p) ==
    /\ pc[p] = "mint_create"
    /\ LET data == loc[p].newCapability
           row == [id |-> Len(capabilities) + 1, agentId |-> data.agentId,
                   scope |-> data.scope, issuedBy |-> data.issuedBy,
                   issuedAt |-> data.issuedAt, expiresAt |-> data.expiresAt,
                   status |-> data.status, tokenHash |-> data.tokenHash,
                   revokedAt |-> data.revokedAt]
       IN  IF \/ findById(row.agentId) = {}
              \/ findByTokenHash(row.tokenHash) # <<>>
              \/ ~validExpiration(row)
           THEN /\ Finish(p, capabilityReply("mintCapability", "constraint violation",
                              [token |-> loc[p].token, capability |-> NoCapability,
                               expiresAt |-> data.expiresAt, issuedAt |-> data.issuedAt]))
                /\ UNCHANGED capabilities
           ELSE /\ capabilities' = Append(capabilities, row)
                /\ Finish(p, capabilityReply("mintCapability", "ok",
                              [token |-> loc[p].token, capability |-> <<row>>,
                               expiresAt |-> data.expiresAt, issuedAt |-> data.issuedAt]))
    /\ UNCHANGED <<agents, events, now, reputation>>

\* ---- CapabilityService.validateToken
\* the tokens a caller may present: every token minted, and one never minted
tokensPresented == {c.tokenHash[2] : c \in capabilityRows} \cup {<<"token", "none", 0>>}

revokedIds == {c.id : c \in {r \in capabilityRows : r.status = "revoked"}}

\* POST /capabilities/validate received: the call is placed
ValidateTokenCall(p) ==
    /\ pc[p] = "idle"
    /\ \E token \in tokensPresented :
         Suspend(p, "validate_find", [token |-> token, revokedAtCall |-> revokedIds])
    /\ UNCHANGED <<agents, events, now, capabilities, reputation>>

\* capabilityRepo.findByTokenHash answers
ValidateTokenFind(p) ==
    /\ pc[p] = "validate_find"
    /\ LET capability == findByTokenHash(sha256(loc[p].token))
       IN  IF capability = <<>>
           THEN Finish(p, capabilityReply("validateToken", "ok",
                          [valid |-> FALSE, reason |-> "Token not found",
                           capability |-> NoCapability, at |-> now,
                           revokedAtCall |-> loc[p].revokedAtCall]))
           ELSE Suspend(p, "validate_check",
                        [capability |-> capability,
                         revokedAtCall |-> loc[p].revokedAtCall])
    /\ UNCHANGED <<agents, events, now, capabilities, reputation>>

\* the status and expiry checks on the row read, against new Date()
ValidateTokenCheck(p) ==
    /\ pc[p] = "validate_check"
    /\ LET capability == loc[p].capability[1]
           result(valid, reason) ==
               capabilityReply("validateToken", "ok",
                   [valid |-> valid, reason |-> reason,
                    capability |-> loc[p].capability, at |-> now,
                    revokedAtCall |-> loc[p].revokedAtCall])
       IN  IF capability.status = "revoked"
           THEN Finish(p, result(FALSE, "Token revoked"))
           ELSE IF capability.status = "expired" \/ now > capability.expiresAt
           THEN Finish(p, result(FALSE, "Token expired"))
           ELSE Finish(p, result(TRUE, Undefined))
    /\ UNCHANGED <<agents, events, now, capabilities, reputation>>

\* ---- CapabilityService.checkPermission
\* findActiveForAgent is called: new Date() is taken, the query is sent
CheckPermissionCall(p) ==
    /\ pc[p] = "idle"
    /\ \E agentId \in AgentIds, action \in Actions :
         Suspend(p, "check_find",
                 [agentId |-> agentId, action |-> action, nowJs |-> now,
                  revokedAtCall |-> revokedIds])
    /\ UNCHANGED <<agents, events, now, capabilities, reputation>>

\* the query answers and the loop runs: the first capability that grants
\* decides, in whatever order the rows came
CheckPermissionFind(p) ==
    /\ pc[p] = "check_find"
    /\ LET found == findActiveForAgent(loc[p].agentId, loc[p].nowJs)
           granting == {c \in found : grantingKey(c, loc[p].action) # Undefined}
           result(allowed, by, scope) ==
               capabilityReply("checkPermission", "ok",
                   [allowed |-> allowed, by |-> by, scope |-> scope,
                    agentId |-> loc[p].agentId, action |-> loc[p].action,
                    at |-> loc[p].nowJs, revokedAtCall |-> loc[p].revokedAtCall])
       IN  IF granting = {}
           THEN Finish(p, result(FALSE, 0, Undefined))
           ELSE \E cap \in granting :
                  Finish(p, result(TRUE, cap.id,
                                   cap.scope[grantingKey(cap, loc[p].action)]))
    /\ UNCHANGED <<agents, events, now, capabilities, reputation>>

\* validateToken's answer to a token in the current state
validateToken(token) ==
    LET capability == findByTokenHash(sha256(token))
    IN  IF capability = <<>>
        THEN [valid |-> FALSE, reason |-> "Token not found", capability |-> capability]
        ELSE IF capability[1].status = "revoked"
        THEN [valid |-> FALSE, reason |-> "Token revoked", capability |-> capability]
        ELSE IF capability[1].status = "expired" \/ now > capability[1].expiresAt
        THEN [valid |-> FALSE, reason |-> "Token expired", capability |-> capability]
        ELSE [valid |-> TRUE, reason |-> Undefined, capability |-> capability]

\* checkPermission's possible answers in the current state, one for each
\* capability the loop may meet first
checkPermission(agentId, action) ==
    LET granting == {c \in findActiveForAgent(agentId, now) :
                        grantingKey(c, action) # Undefined}
    IN  IF granting = {}
        THEN {[allowed |-> FALSE, scope |-> Undefined]}
        ELSE {[allowed |-> TRUE, scope |-> c.scope[grantingKey(c, action)]] :
                 c \in granting}

\* ---- CapabilityService.revokeCapability
\* capabilityRepo.findById and the status check
RevokeCapabilityFind(p) ==
    /\ pc[p] = "idle"
    /\ \E capabilityId \in 1..MaxCaps :
         LET capability == findCapabilityById(capabilityId)
         IN  IF capability = <<>>
             THEN Finish(p, capabilityReply("revokeCapability", "Capability not found",
                                           [capabilityId |-> capabilityId]))
             ELSE IF capability[1].status = "revoked"
             THEN Finish(p, capabilityReply("revokeCapability",
                                           "Capability already revoked",
                                           [capabilityId |-> capabilityId]))
             ELSE Suspend(p, "revokeCapability_revoke", [capabilityId |-> capabilityId])
    /\ UNCHANGED <<agents, events, now, capabilities, reputation>>

\* CapabilityRepository.revoke: UPDATE ... SET status, revoked_at WHERE id
revokeCapabilityRow(id) ==
    [capabilities EXCEPT ![id].status = "revoked", ![id].revokedAt = now]

RevokeCapabilityRevoke(p) ==
    /\ pc[p] = "revokeCapability_revoke"
    /\ capabilities' = revokeCapabilityRow(loc[p].capabilityId)
    /\ Finish(p, capabilityReply("revokeCapability", "ok",
                                 [capabilityId |-> loc[p].capabilityId]))
    /\ UNCHANGED <<agents, events, now, reputation>>

\* CapabilityRepository.revokeAllForAgent: UPDATE ... WHERE agent_id AND
\* status = 'active'
revokeAllForAgent(agentId) ==
    [i \in 1..Len(capabilities) |->
        IF capabilities[i].agentId = agentId /\ capabilities[i].status = "active"
        THEN [capabilities[i] EXCEPT !.status = "revoked", !.revokedAt = now]
        ELSE capabilities[i]]

RevokeAllForAgent(p) ==
    /\ pc[p] = "idle"
    /\ \E agentId \in AgentIds :
         /\ capabilities' = revokeAllForAgent(agentId)
         /\ Finish(p, capabilityReply("revokeAllForAgent", "ok", [agentId |-> agentId]))
    /\ UNCHANGED <<agents, events, now, reputation>>

\* CapabilityRepository.expireOldCapabilities: UPDATE ... SET status =
\* 'expired' WHERE status = 'active' AND expires_at <= now
expireOldCapabilities ==
    [i \in 1..Len(capabilities) |->
        IF capabilities[i].status = "active" /\ capabilities[i].expiresAt <= now
        THEN [capabilities[i] EXCEPT !.status = "expired"]
        ELSE capabilities[i]]

ExpireOldCapabilities(p) ==
    /\ pc[p] = "idle"
    /\ capabilities' = expireOldCapabilities
    /\ Finish(p, capabilityReply("expireOldCapabilities", "ok", [at |-> now]))
    /\ UNCHANGED <<agents, events, now, reputation>>

\* new Date() advances while capability calls are served
TickCapabilities ==
    /\ now + 1 \in CapTimes
    /\ now' = now + 1
    /\ UNCHANGED <<agents, events, pc, loc, reply, capabilities, reputation,
                   processState>>

\* ---------------------------------------------------------------- request authenticator
\* parseInt(timestamp, 10); -1 stands for NaN
parseTimestamp(header) == IF header.kind = "num" THEN header.value ELSE -1

\* Math.floor(Date.now() / 1000)
nowSeconds == now \div 1000

\* Math.abs(now - requestTime)
timeDiff(nowSec, requestTime) ==
    IF nowSec >= requestTime THEN nowSec - requestTime ELSE requestTime - nowSec

\* a freshness check that rejects at the edge of the window
outsideWindowInclusive(nowSec, requestTime) ==
    timeDiff(nowSec, requestTime) >= signatureTimestampWindow

\* timeDiff > config.signatureTimestampWindow
outsideWindow(nowSec, requestTime) ==
    timeDiff(nowSec, requestTime) > signatureTimestampWindow

\* `${method}:${path}:${body}:${timestamp}`
signedPayload(method, path, body, timestamp) == <<method, path, body, timestamp>>

\* the X-Signature headers a caller may send with a request: none, a
\* malformed one, or a signature by any key pair over a payload of its choosing
signatureHeaders ==
    {Missing, Malformed}
    \cup {ed25519Sign(signedPayload("POST", "/api/events", body, timestamp), privateKey) :
             body \in RequestBodies,
             timestamp \in {h \in TimestampHeaders : h.kind = "num"},
             privateKey \in Keys}

\* what verifyAgentSignature answers: reply.status(...).send(...), with the
\* request it answered
authReply(status, outcome, request) ==
    [op |-> "verifyAgentSignature", outcome |-> outcome, status |-> status,
     request |-> request]

\* headers, timestamp parsing and the window check, up to the await of
\* agentRepo.findById
checkTimestamp(p, request) ==
    LET requestTime == parseTimestamp(request.timestamp)
    IN  IF \/ request.agentId = Missing
           \/ request.timestamp.kind = "missing"
           \/ request.signature = Missing
        THEN Finish(p, authReply(401, "Unauthorized", request))
        ELSE IF requestTime = -1
        THEN Finish(p, authReply(401, "Invalid timestamp", request))
        ELSE IF outsideWindow(nowSeconds, requestTime)
        THEN Finish(p, authReply(401, "Timestamp expired", request))
        ELSE Suspend(p, "auth_findById",
                     [agentId |-> request.agentId, request |-> request])

\* the requests that reach an authenticator: their credential headers, the
\* signed parts, and the server's clock when they arrive
requestsWith(serviceKeys) ==
    {[agentId |-> agentId, timestamp |-> timestamp, signature |-> signature,
      serviceKey |-> serviceKey, method |-> "POST", url |-> "/api/events",
      body |-> "body1", nowSec |-> nowSeconds, agent |-> <<>>] :
        agentId \in AgentIds \cup {Missing}, timestamp \in TimestampHeaders,
        signature \in signatureHeaders, serviceKey \in serviceKeys}

AuthCheckTimestamp(p) ==
    /\ pc[p] = "idle"
    /\ \E request \in requestsWith({Missing}) : checkTimestamp(p, request)
    /\ UNCHANGED <<agents, events, now, capabilities, reputation>>

\* config.serviceApiKey, and an X-Service-Key header with another value
serviceApiKey == <<"service-key">>
ServiceKeyHeaders == {Missing, serviceApiKey, <<"wrong-key">>}

\* verifyAuth: a request with an X-Service-Key header is judged by
\* verifyServiceKey alone, one with the three agent headers by
\* verifyAgentSignature, any other is refused
authByHeaders(p, request) ==
    IF request.serviceKey # Missing
    THEN IF request.serviceKey # serviceApiKey
         THEN Finish(p, [op |-> "verifyServiceKey", outcome |-> "Unauthorized",
                         status |-> 401, request |-> request])
         ELSE Suspend(p, "authenticated", [agentId |-> Missing, request |-> request])
    ELSE IF /\ request.agentId # Missing
            /\ request.timestamp.kind # "missing"
            /\ request.signature # Missing
    THEN checkTimestamp(p, request)
    ELSE Finish(p, [op |-> "verifyAuth", outcome |-> "Unauthorized",
                    status |-> 401, request |-> request])

VerifyAuth(p) ==
    /\ pc[p] = "idle"
    /\ \E request \in requestsWith(ServiceKeyHeaders) : authByHeaders(p, request)
    /\ UNCHANGED <<agents, events, now, capabilities, reputation>>

\* the agent lookup, the status check and ed25519.verifyAsync over the
\* payload rebuilt from the request; a signature of the wrong length makes
\* the library either throw (caught: 500) or answer false
AuthVerifySignature(p) ==
    /\ pc[p] = "auth_findById"
    /\ LET found == findById(loc[p].agentId)
           request == [loc[p].request EXCEPT
                          !.agent = IF found = {} THEN <<>>
                                    ELSE <<CHOOSE a \in found : TRUE>>]
           payload == signedPayload(request.method, request.url, request.body,
                                    request.timestamp)
       IN  IF found = {}
           THEN Finish(p, authReply(401, "Agent not found", request))
           ELSE IF request.agent[1].status # "active"
           THEN Finish(p, authReply(403, "Agent not active", request))
           ELSE IF request.signature = Malformed
           THEN \/ Finish(p, authReply(500, "Verification error", request))
                \/ Finish(p, authReply(401, "Invalid signature", request))
           ELSE IF ~ed25519Verify(request.signature, payload, request.agent[1].publicKey)
           THEN Finish(p, authReply(401, "Invalid signature", request))
           ELSE Suspend(p, "authenticated", [agentId |-> loc[p].agentId,
                                             request |-> request])
    /\ UNCHANGED <<agents, events, now, capabilities, reputation>>

\* the route handler runs with request.agent attached
RunHandler(p) ==
    /\ pc[p] = "authenticated"
    /\ Finish(p, [op |-> "handler", outcome |-> "ok", status |-> 201,
                  request |-> loc[p].request])
    /\ UNCHANGED <<agents, events, now, capabilities, reputation>>

\* Date.now() advances to its next reading
TickAuth ==
    /\ \E t \in AuthClock :
         /\ t > now
         /\ \A u \in AuthClock : u > now => t <= u
         /\ now' = t
    /\ UNCHANGED <<agents, events, pc, loc, reply, capabilities, reputation,
                   processState>>

\* ---------------------------------------------------------------- reputation
\* OUTCOME_IMPACT_SCORES, in hundredths of a point
OUTCOME_IMPACT_SCORES ==
    [success |-> 50, partial_success |-> 20, failure |-> -30,
     user_corrected |-> -50, harmful |-> -200]

OutcomeTypes == DOMAIN OUTCOME_IMPACT_SCORES

\* customImpactScore: <<>> when the caller sends none, else <<hundredths>>
NoImpact == <<>>
CustomImpacts == {<<-100>>, <<0>>, <<100>>}

\* a NUMERIC column rounds the quotient num / den (both non-negative) to its
\* scale, half away from zero
numeric(num, den) == (2 * num + den) \div (2 * den)

\* customImpactScore ?? OUTCOME_IMPACT_SCORES[outcomeType]
impactScore(outcomeType, customImpactScore) ==
    IF customImpactScore = NoImpact THEN OUTCOME_IMPACT_SCORES[outcomeType]
    ELSE customImpactScore[1]

\* an overall score that is not clamped
unclampedScore(overallScore, impact) == overallScore + impact

\* Math.max(0, Math.min(100, Number(current.overallScore) + impactScore))
newOverallScore(overallScore, impact) ==
    LET sum == overallScore + impact
        capped == IF sum < 10000 THEN sum ELSE 10000
    IN  IF capped > 0 THEN capped ELSE 0

isSuccess(outcomeType) == outcomeType \in {"success", "partial_success"}
isFailure(outcomeType) == outcomeType \in {"failure", "user_corrected", "harmful"}

\* (Number(rate) * Number(totalActions) + (hit ? 1 : 0)) / newTotalActions,
\* as the NUMERIC(5,4) column stores it
newRate(rate, totalActions, hit) ==
    numeric(rate * totalActions + (IF hit THEN 10000 ELSE 0), totalActions + 1)

\* the row reputationRepo.update writes from the row recordOutcome read
recorded(current, outcomeType, customImpactScore) ==
    [overallScore |-> newOverallScore(current.overallScore,
                                      impactScore(outcomeType, customImpactScore)),
     totalActions |-> current.totalActions + 1,
     successRate |-> newRate(current.successRate, current.totalActions,
                             isSuccess(outcomeType)),
     failureRate |-> newRate(current.failureRate, current.totalActions,
                             isFailure(outcomeType)),
     harmfulActions |-> current.harmfulActions
                          + (IF outcomeType = "harmful" THEN 1 ELSE 0),
     userCorrections |-> current.userCorrections
                          + (IF outcomeType = "user_corrected" THEN 1 ELSE 0)]

\* recordOutcome up to the await of reputationRepo.update: getReputation
\* and the computation of the new row from what it read. `totals` bounds
\* the histories explored.
RecordOutcomeGet(p, types, impacts, totals) ==
    /\ pc[p] = "idle"
    /\ \E agentId \in AgentIds, outcomeType \in types, customImpactScore \in impacts :
         IF agentId \notin DOMAIN reputation
         THEN Finish(p, [op |-> "recordOutcome", outcome |-> "Reputation not found"])
         ELSE /\ reputation[agentId].totalActions \in totals
              /\ Suspend(p, "recordOutcome_update",
                         [agentId |-> agentId, outcomeType |-> outcomeType,
                          customImpactScore |-> customImpactScore,
                          current |-> reputation[agentId]])
    /\ UNCHANGED <<agents, events, now, capabilities, reputation>>

\* reputationRepo.update: UPDATE reputation SET ... WHERE agent_id
RecordOutcomeUpdate(p) ==
    /\ pc[p] = "recordOutcome_update"
    /\ reputation' = [reputation EXCEPT ![loc[p].agentId] =
                         recorded(loc[p].current, loc[p].outcomeType,
                                  loc[p].customImpactScore) @@ @]
    /\ Finish(p, [op |-> "recordOutcome", outcome |-> "ok"])
    /\ UNCHANGED <<agents, events, now, capabilities>>

\* ---- updateDomainScore
\* the domains and the scores (in hundredths) the callers send
Domains == {"coding", "research"}
DomainScores == {25, 75}

\* { ...breakdown, [domain]: score }
withDomainScore(breakdown, domain, score) ==
    [d \in DOMAIN breakdown \cup {domain} |->
        IF d = domain THEN score ELSE breakdown[d]]

\* updateDomainScore up to its read of the row
UpdateDomainScoreGet(p) ==
    /\ pc[p] = "idle"
    /\ \E agentId \in AgentIds, domain \in Domains, score \in DomainScores :
         IF agentId \notin DOMAIN reputation
         THEN Finish(p, [op |-> "updateDomainScore", outcome |-> "Reputation not found"])
         ELSE Suspend(p, "updateDomainScore_update",
                      [agentId |-> agentId, domain |-> domain, score |-> score,
                       current |-> reputation[agentId]])
    /\ UNCHANGED <<agents, events, now, capabilities, reputation>>

\* reputationRepo.update(agentId, { breakdown }): the whole column is
\* written from the row read before
UpdateDomainScoreUpdate(p) ==
    /\ pc[p] = "updateDomainScore_update"
    /\ reputation' = [reputation EXCEPT ![loc[p].agentId].breakdown =
                         withDomainScore(loc[p].current.breakdown, loc[p].domain,
                                         loc[p].score)]
    /\ Finish(p, [op |-> "updateDomainScore", outcome |-> "ok",
                  agentId |-> loc[p].agentId, domain |-> loc[p].domain,
                  score |-> loc[p].score])
    /\ UNCHANGED <<agents, events, now, capabilities>>

\* ---- POST /events: verifyAgentSignature, then the handler's appendEvent
\* the bodies TrustClient.appendEvent builds: for an agent, over a head, with
\* the event signed by some key
eventBodies(bodyKeys, eventKeys, prevs) ==
    {requestBody(signEvent([agent_id |-> deriveAgentId(a),
                            event_type |-> "input_received", timestamp |-> t,
                            prev_hash |-> prev_hash, payload |-> payload,
                            correlation_id |-> Undefined], k), TRUE) :
        a \in bodyKeys, k \in eventKeys, t \in Times, prev_hash \in prevs,
        payload \in Payloads}

\* the requests sent with the headers of senderKeys' agents, signed by them
\* at the server's second
eventRequests(senderKeys, bodies) ==
    {[xAgentId |-> deriveAgentId(x),
      xTimestamp |-> [kind |-> "num", value |-> nowSeconds],
      xSignature |-> ed25519Sign(signedPayload("POST", "/api/events", body,
                                               [kind |-> "num", value |-> nowSeconds]), x),
      body |-> body] : x \in senderKeys, body \in bodies}

postEventsReply(status, outcome, request, authenticated, event) ==
    [op |-> "postEvents", status |-> status, outcome |-> outcome,
     request |-> request, authenticated |-> authenticated, event |-> event]

\* the preHandler verifyAgentSignature on the request's headers
PostEventsAuth(p, requests) ==
    /\ pc[p] = "idle"
    /\ \E request \in requests :
         LET found == findById(request.xAgentId)
             payload == signedPayload("POST", "/api/events", request.body,
                                      request.xTimestamp)
         IN  IF outsideWindow(nowSeconds, parseTimestamp(request.xTimestamp))
             THEN Finish(p, postEventsReply(401, "Timestamp expired", request, Null, <<>>))
             ELSE IF found = {}
             THEN Finish(p, postEventsReply(401, "Agent not found", request, Null, <<>>))
             ELSE LET agent == CHOOSE a \in found : TRUE
                  IN  IF agent.status # "active"
                      THEN Finish(p, postEventsReply(403, "Agent not active", request,
                                                     Null, <<>>))
                      ELSE IF ~ed25519Verify(request.xSignature, payload, agent.publicKey)
                      THEN Finish(p, postEventsReply(401, "Invalid signature", request,
                                                     Null, <<>>))
                      ELSE Suspend(p, "postEvents_findAgent",
                                   [agentId |-> agent.agentId, request |-> request])
    /\ UNCHANGED <<agents, events, now, capabilities, reputation>>

\* appendEvent step 1 on body.agentId
PostEventsFindAgent(p) ==
    /\ pc[p] = "postEvents_findAgent"
    /\ LET request == loc[p].request
           found == findById(request.body.agentId)
       IN  IF found = {}
           THEN Finish(p, postEventsReply(400, "Agent not found", request,
                                          loc[p].agentId, <<>>))
           ELSE LET agent == CHOOSE a \in found : TRUE
                IN  IF agent.status # "active"
                    THEN Finish(p, postEventsReply(400, "Agent is revoked", request,
                                                   loc[p].agentId, <<>>))
                    ELSE Suspend(p, "postEvents_getLast",
                                 [agentId |-> loc[p].agentId, request |-> request,
                                  publicKey |-> agent.publicKey])
    /\ UNCHANGED <<agents, events, now, capabilities, reputation>>

\* appendEvent steps 2-5 on the body
PostEventsGetLast(p) ==
    /\ pc[p] = "postEvents_getLast"
    /\ LET request == loc[p].request
           lastEvent == getLastEventForAgent(request.body.agentId)
           prevHash == IF lastEvent # <<>> THEN lastEvent[1].hash ELSE Null
           signedEvent == rebuiltSignedEvent(request.body, prevHash)
       IN  IF ~verifyEvent(signedEvent, loc[p].publicKey).valid
           THEN Finish(p, postEventsReply(400, "Event verification failed", request,
                                          loc[p].agentId, <<>>))
           ELSE IF signedEvent.prev_hash # prevHash
           THEN Finish(p, postEventsReply(400, "Hash chain broken", request,
                                          loc[p].agentId, <<>>))
           ELSE /\ Len(events) + Cardinality({q \in Procs : pc[q] = "postEvents_insert"})
                     < MaxEvents
                /\ Suspend(p, "postEvents_insert",
                           [agentId |-> loc[p].agentId, request |-> request,
                            prevHash |-> prevHash])
    /\ UNCHANGED <<agents, events, now, capabilities, reputation>>

\* appendEvent step 6 and the route's reply
PostEventsInsert(p) ==
    /\ pc[p] = "postEvents_insert"
    /\ LET request == loc[p].request
           row == newEvent(request.body, loc[p].prevHash)
       IN  IF hashTaken(row.hash)
           THEN /\ Finish(p, postEventsReply(400, "duplicate key", request,
                                             loc[p].agentId, <<>>))
                /\ UNCHANGED events
           ELSE /\ events' = append(row)
                /\ Finish(p, postEventsReply(201, "ok", request, loc[p].agentId,
                                             <<row>>))
    /\ UNCHANGED <<agents, now, capabilities, reputation>>

\* ---- TrustClient
\* the key pair and the agent the client was constructed with
clientKey == "k1"
clientAgentId == deriveAgentId(clientKey)

\* init: GET /events/last-hash/:agentId is answered from the ledger
ClientInitRequest(p) ==
    /\ pc[p] = "idle"
    /\ Suspend(p, "init_response",
               [agentId |-> clientAgentId, lastHash |-> getLastEventHash(clientAgentId)])
    /\ UNCHANGED <<agents, events, now, capabilities, reputation>>

\* init: this.lastEventHash = data.lastHash
ClientInitResponse(p) ==
    /\ pc[p] = "init_response"
    /\ lastEventHash' = loc[p].lastHash
    /\ pc' = [pc EXCEPT ![p] = "idle"]
    /\ loc' = [loc EXCEPT ![p] = NoLoc]
    /\ UNCHANGED <<agents, events, now, reply, capabilities, reputation, rateLimitStore>>

\* appendEvent: the event is signed over this.lastEventHash and sent
ClientAppendEvent(p) ==
    PostEventsAuth(p, eventRequests({clientKey},
                                    eventBodies({clientKey}, {clientKey}, {lastEventHash})))

\* a client that forgets its head when an append fails
lastEventHashOrNull(response) ==
    IF response.status = 201 THEN response.event[1].hash ELSE Null

\* appendEvent after the response: a response that is not ok throws before
\* the assignment
lastEventHashAfter(response) ==
    IF response.status = 201 THEN response.event[1].hash ELSE lastEventHash

ClientAppendResponse(p) ==
    /\ pc[p] = "done"
    /\ reply[p].op = "postEvents"
    /\ lastEventHash' = lastEventHashAfter(reply[p])
    /\ pc' = [pc EXCEPT ![p] = "idle"]
    /\ reply' = [reply EXCEPT ![p] = NoReply]
    /\ UNCHANGED <<agents, events, now, loc, capabilities, reputation, rateLimitStore>>

\* ---- POST /outcomes
\* the outcomes table: the schema declares it and no statement of the server
\* inserts into it, so it holds no row in any state
outcomes == {}

\* the bodies the route's schema lets through, for a caller holding the
\* service key
OutcomeBodies ==
    [agentId : AgentIds, eventId : 1..MaxEvents, outcomeType : {"success", "harmful"},
     reporter : {"user"}, impactScore : {NoImpact, <<-100>>}]

\* the handler up to recordOutcome's read of the reputation row
PostOutcomeGet(p) ==
    /\ pc[p] = "idle"
    /\ \E body \in OutcomeBodies :
         IF body.agentId \notin DOMAIN reputation
         THEN Finish(p, [op |-> "postOutcome", outcome |-> "Record failed",
                         status |-> 400, body |-> body])
         ELSE /\ reputation[body.agentId].totalActions < MaxOutcomes
              /\ Suspend(p, "postOutcome_update",
                         [agentId |-> body.agentId, body |-> body,
                          current |-> reputation[body.agentId]])
    /\ UNCHANGED <<agents, events, now, capabilities, reputation>>

\* recordOutcome's write and the 201 reply
PostOutcomeUpdate(p) ==
    /\ pc[p] = "postOutcome_update"
    /\ reputation' = [reputation EXCEPT ![loc[p].agentId] =
                         recorded(loc[p].current, loc[p].body.outcomeType,
                                  loc[p].body.impactScore) @@ @]
    /\ Finish(p, [op |-> "postOutcome", outcome |-> "ok", status |-> 201,
                  body |-> loc[p].body])
    /\ UNCHANGED <<agents, events, now, capabilities>>

\* ---- rate limiter
windowMs == 60000             \* the global limiter's window
sweepGrace == 60000           \* how long the sweep leaves an ended bucket
RateKeys == {"agent1", "ip1"} \* keyGenerator: X-Agent-Id or request.ip
RateSteps == {20500, 39500, 60001}  \* by how much Date.now() moves between calls

\* Math.ceil(x / d)
ceilDiv(x, d) == (x + d - 1) \div d

\* a limiter that refuses the request that reaches the limit
limitExceededInclusive(count) == count >= maxRequests

\* record.count > options.maxRequests
limitExceeded(count) == count > maxRequests

\* rateLimiter: the whole hook runs without an await
RateLimiter(p) ==
    /\ pc[p] = "idle"
    /\ \E key \in RateKeys :
         LET expired == \/ key \notin DOMAIN rateLimitStore
                        \/ now > rateLimitStore[key].resetAt
             record == IF expired THEN [count |-> 1, resetAt |-> now + windowMs]
                       ELSE [rateLimitStore[key] EXCEPT !.count = @ + 1]
         IN  /\ record.count <= MaxBucketCount
             /\ rateLimitStore' =
                    [k \in DOMAIN rateLimitStore \cup {key} |->
                        IF k = key THEN record ELSE rateLimitStore[k]]
             /\ reply' = [reply EXCEPT ![p] =
                    IF limitExceeded(record.count)
                    THEN [op |-> "rateLimiter", outcome |-> "Too Many Requests",
                          status |-> 429, key |-> key, at |-> now,
                          resetAt |-> record.resetAt,
                          retryAfter |-> ceilDiv(record.resetAt - now, 1000)]
                    ELSE [op |-> "rateLimiter", outcome |-> "handler",
                          status |-> 200, key |-> key, at |-> now,
                          resetAt |-> record.resetAt,
                          remaining |-> maxRequests - record.count]]
    /\ pc' = [pc EXCEPT ![p] = "done"]
    /\ loc' = [loc EXCEPT ![p] = NoLoc]
    /\ UNCHANGED <<agents, events, now, capabilities, reputation, lastEventHash>>

\* the setInterval callback
SweepRateLimitStore ==
    /\ rateLimitStore' =
           [k \in {key \in DOMAIN rateLimitStore :
                     ~(now > rateLimitStore[key].resetAt + sweepGrace)} |->
               rateLimitStore[k]]
    /\ UNCHANGED <<agents, events, now, pc, loc, reply, capabilities, reputation,
                   lastEventHash>>

TickRateLimit ==
    /\ \E d \in RateSteps :
         /\ now + d <= MaxRateClock
         /\ now' = now + d
    /\ UNCHANGED <<agents, events, pc, loc, reply, capabilities, reputation,
                   processState>>

\* the thresholds of shouldDowngrade
CRITICAL_SCORE == 2000
HIGH_FAILURE_RATE == 5000
HARMFUL_THRESHOLD == 5

\* a downgrade rule that fires at a failure rate of one half
shouldDowngradeInclusive(row) ==
    IF row.overallScore < CRITICAL_SCORE
    THEN [shouldDowngrade |-> TRUE,
          reason |-> <<"Overall score too low: ", row.overallScore>>]
    ELSE IF row.failureRate >= HIGH_FAILURE_RATE
    THEN [shouldDowngrade |-> TRUE,
          reason |-> <<"Failure rate too high: ", row.failureRate>>]
    ELSE IF row.harmfulActions >= HARMFUL_THRESHOLD
    THEN [shouldDowngrade |-> TRUE,
          reason |-> <<"Too many harmful actions: ", row.harmfulActions>>]
    ELSE [shouldDowngrade |-> FALSE, reason |-> <<>>]

\* a downgrade rule that looks at the harmful count before the failure rate
shouldDowngradeHarmfulFirst(row) ==
    IF row.overallScore < CRITICAL_SCORE
    THEN [shouldDowngrade |-> TRUE,
          reason |-> <<"Overall score too low: ", row.overallScore>>]
    ELSE IF row.harmfulActions >= HARMFUL_THRESHOLD
    THEN [shouldDowngrade |-> TRUE,
          reason |-> <<"Too many harmful actions: ", row.harmfulActions>>]
    ELSE IF row.failureRate > HIGH_FAILURE_RATE
    THEN [shouldDowngrade |-> TRUE,
          reason |-> <<"Failure rate too high: ", row.failureRate>>]
    ELSE [shouldDowngrade |-> FALSE, reason |-> <<>>]

\* the decision shouldDowngrade takes on the row it read
shouldDowngrade(row) ==
    IF row.overallScore < CRITICAL_SCORE
    THEN [shouldDowngrade |-> TRUE,
          reason |-> <<"Overall score too low: ", row.overallScore>>]
    ELSE IF row.failureRate > HIGH_FAILURE_RATE
    THEN [shouldDowngrade |-> TRUE,
          reason |-> <<"Failure rate too high: ", row.failureRate>>]
    ELSE IF row.harmfulActions >= HARMFUL_THRESHOLD
    THEN [shouldDowngrade |-> TRUE,
          reason |-> <<"Too many harmful actions: ", row.harmfulActions>>]
    ELSE [shouldDowngrade |-> FALSE, reason |-> <<>>]

\* ReputationService.shouldDowngrade: getReputation, then the decision
ShouldDowngrade(p) ==
    /\ pc[p] = "idle"
    /\ \E agentId \in AgentIds :
         IF agentId \notin DOMAIN reputation
         THEN Finish(p, [op |-> "shouldDowngrade", outcome |-> "Reputation not found"])
         ELSE Finish(p, [op |-> "shouldDowngrade", outcome |-> "ok",
                         result |-> shouldDowngrade(reputation[agentId]),
                         reputation |-> reputation[agentId]])
    /\ UNCHANGED <<agents, events, now, capabilities, reputation>>

\* ---------------------------------------------------------------- chain lists
\* ---- verifyEventChain called on a list of the caller's choosing
\* events a caller can hold: signed by any key pair over a prev_hash out of
\* prevs, as signed or with the payload changed afterwards
eventsOver(prevs) ==
    {[signed EXCEPT !.payload = payload] :
        signed \in {signEvent([agent_id |-> deriveAgentId("k1"),
                               event_type |-> "input_received", timestamp |-> 1,
                               prev_hash |-> prev_hash, payload |-> "pl1",
                               correlation_id |-> Undefined], privateKey) :
                        prev_hash \in prevs, privateKey \in Keys},
        payload \in Payloads}

\* the events that can stand in a chain of up to n links
RECURSIVE eventPool(_)
eventPool(n) ==
    IF n = 0 THEN {}
    ELSE eventsOver({Null} \cup {e.hash : e \in eventPool(n - 1)})

ChainInputs == UNION {[1..n -> eventPool(MaxChain)] : n \in 0..MaxChain}

VerifyEventChainCall(p) ==
    /\ pc[p] = "idle"
    /\ \E evs \in ChainInputs, publicKeyHex \in Keys :
         Finish(p, [op |-> "verifyEventChain", outcome |-> "ok",
                    evs |-> evs, publicKeyHex |-> publicKeyHex,
                    result |-> verifyEventChain(evs, publicKeyHex)])
    /\ UNCHANGED <<agents, events, now, capabilities, reputation>>

\* a linkage check that also recomputes every event's hash
verifyChainLinkageWithHashes(evs) ==
    LET r == verifyEventChain(evs, "k1")
    IN  [valid |-> \A e \in r.errors : e[2] = "Invalid Ed25519 signature",
         errors |-> {e \in r.errors : e[2] # "Invalid Ed25519 signature"}]

\* verifyChainLinkage: errors as (index, kind) pairs
verifyChainLinkage(evs) ==
    IF Len(evs) = 0
    THEN [valid |-> TRUE, errors |-> {}]
    ELSE LET errs == (IF evs[1].prev_hash # Null
                      THEN {<<0, "first prev_hash not null">>} ELSE {})
                     \cup {<<i, "chain broken">> :
                             i \in {j \in 1..(Len(evs) - 1) :
                                       evs[j + 1].prev_hash # evs[j].hash}}
         IN  [valid |-> errs = {}, errors |-> errs]

VerifyChainLinkageCall(p) ==
    /\ pc[p] = "idle"
    /\ \E evs \in ChainInputs :
         Finish(p, [op |-> "verifyChainLinkage", outcome |-> "ok",
                    evs |-> evs, result |-> verifyChainLinkage(evs)])
    /\ UNCHANGED <<agents, events, now, capabilities, reputation>>

\* ---- signEvent followed by verifyEvent
\* the canonical JSON of some object that is none of the events below
OtherBytes == <<<<"agent_id", sha256("k0")>>>>

\* the unsigned events callers sign
UnsignedEvents ==
    [agent_id : AgentIds, event_type : {"input_received", "decision_made"},
     timestamp : Times, prev_hash : {Null, sha256(OtherBytes)}, payload : Payloads,
     correlation_id : {Undefined, "c1"}]

\* the events that differ from a signed event in one field: another value
\* of the field's type, another digest, a signature by another key or over
\* other bytes, or the same signature spelled differently
changedInOneField(signed, privateKey) ==
    {[signed EXCEPT !.agent_id = v] : v \in AgentIds \ {signed.agent_id}}
    \cup {[signed EXCEPT !.event_type = v] :
            v \in {"input_received", "decision_made"} \ {signed.event_type}}
    \cup {[signed EXCEPT !.timestamp = v] : v \in Times \ {signed.timestamp}}
    \cup {[signed EXCEPT !.prev_hash = v] :
            v \in {Null, sha256(OtherBytes)} \ {signed.prev_hash}}
    \cup {[signed EXCEPT !.payload = v] : v \in Payloads \ {signed.payload}}
    \cup {[signed EXCEPT !.correlation_id = v] :
            v \in {Undefined, "c1"} \ {signed.correlation_id}}
    \cup {[signed EXCEPT !.hash = sha256(OtherBytes)]}
    \cup {[signed EXCEPT !.signature = v] :
            v \in {ed25519Sign(signed.signature[3], k) : k \in Keys \ {privateKey}}
                  \cup {ed25519Sign(OtherBytes, privateKey), respelled(signed.signature)}}

\* signEvent(unsigned, privateKey), possibly changed in one field on its
\* way, handed to verifyEvent with a public key
VerifyEventCall(p) ==
    /\ pc[p] = "idle"
    /\ \E unsigned \in UnsignedEvents, privateKey \in Keys, publicKeyHex \in Keys :
         LET signed == signEvent(unsigned, privateKey)
         IN  \E event \in {signed} \cup changedInOneField(signed, privateKey) :
                 Finish(p, [op |-> "verifyEvent", outcome |-> "ok",
                            signed |-> signed, privateKey |-> privateKey,
                            event |-> event, publicKeyHex |-> publicKeyHex,
                            result |-> verifyEvent(event, publicKeyHex)])
    /\ UNCHANGED <<agents, events, now, capabilities, reputation>>

\* ---------------------------------------------------------------- specification
\* The ledger from construction: one administrator registers and revokes
\* agents (revocations carry no reason here) while admissions are served one
\* at a time and the clock runs.
Next ==
    \/ Tick
    \/ \E p \in AdminSlots :
         \/ RegisterFindByPublicKey(p, Keys)
         \/ RegisterCreate(p)
         \/ RevokeGetAgent(p, {Undefined})
         \/ RevokeRevoke(p)
         \/ Return(p)
    \/ \E p \in {"p1"} :
         \/ AppendFindAgent(p)
         \/ AppendGetLast(p)
         \/ AppendInsert(p)
         \/ Return(p)

Spec == Init /\ [][Next]_vars

\* Every key pair registered and active, as after |Keys| registerAgent calls
InitRegistered ==
    /\ agents = {newAgentRow(k) : k \in Keys}
    /\ events = <<>>
    /\ now = 1
    /\ pc = [p \in Procs |-> "idle"]
    /\ loc = [p \in Procs |-> NoLoc]
    /\ reply = [p \in Procs |-> NoReply]
    /\ rateLimitStore = emptyStore
    /\ lastEventHash = Null
    /\ reputation = [a \in {r.agentId : r \in agents} |-> freshReputation]
    /\ capabilities = <<>>

\* Admissions served concurrently for the registered agents
NextConcurrent ==
    \/ Tick
    \/ \E p \in AgentSlots :
         \/ AppendFindAgent(p)
         \/ AppendGetLast(p)
         \/ AppendInsert(p)
         \/ Return(p)

SpecConcurrent == InitRegistered /\ [][NextConcurrent]_vars

\* Capability calls served one at a time for the registered agents
NextCapabilities ==
    \/ TickCapabilities
    \/ \E p \in AdminSlots :
         \/ MintCapability(p)
         \/ MintCreate(p)
         \/ ValidateTokenCall(p)
         \/ ValidateTokenFind(p)
         \/ ValidateTokenCheck(p)
         \/ CheckPermissionCall(p)
         \/ CheckPermissionFind(p)
         \/ RevokeCapabilityFind(p)
         \/ RevokeCapabilityRevoke(p)
         \/ RevokeAllForAgent(p)
         \/ ExpireOldCapabilities(p)
         \/ Return(p)

SpecCapabilities == InitRegistered /\ [][NextCapabilities]_vars

\* Minting alone, next to the bulk revocation and the expiry sweep
NextMint ==
    \/ TickCapabilities
    \/ \E p \in AdminSlots :
         \/ MintCapability(p)
         \/ MintCreate(p)
         \/ RevokeAllForAgent(p)
         \/ ExpireOldCapabilities(p)
         \/ Return(p)

SpecMint == InitRegistered /\ [][NextMint]_vars

\* Two capabilities minted for the first agent at time 1, as after two
\* mintCapability calls: one for tool:read until 3, a wildcard one until 2
InitMinted ==
    /\ agents = {newAgentRow(k) : k \in Keys}
    /\ events = <<>>
    /\ now = 1
    /\ pc = [p \in Procs |-> "idle"]
    /\ loc = [p \in Procs |-> NoLoc]
    /\ reply = [p \in Procs |-> NoReply]
    /\ rateLimitStore = emptyStore
    /\ lastEventHash = Null
    /\ reputation = [a \in {r.agentId : r \in agents} |-> freshReputation]
    /\ capabilities =
         <<[id |-> 1, agentId |-> deriveAgentId("k1"),
            scope |-> [k \in ScopeKeys |-> IF k = "tool:read" THEN "true" ELSE Undefined],
            issuedBy |-> "admin", issuedAt |-> 1, expiresAt |-> 3, status |-> "active",
            tokenHash |-> sha256(<<"token", "adm", 0>>), revokedAt |-> NoDate],
           [id |-> 2, agentId |-> deriveAgentId("k1"),
            scope |-> [k \in ScopeKeys |-> IF k = "tool:*" THEN "limit" ELSE Undefined],
            issuedBy |-> "admin", issuedAt |-> 1, expiresAt |-> 2, status |-> "active",
            tokenHash |-> sha256(<<"token", "adm", 1>>), revokedAt |-> NoDate]>>

\* Agents revoked while tokens are validated and permissions checked
NextRevokeFrame ==
    \/ TickCapabilities
    \/ \E p \in AdminSlots :
         \/ RevokeGetAgent(p, {Undefined, "r1"})
         \/ RevokeUpdateMetadata(p)
         \/ RevokeRevoke(p)
         \/ Return(p)
    \/ \E p \in {"p1"} :
         \/ ValidateTokenCall(p)
         \/ ValidateTokenFind(p)
         \/ ValidateTokenCheck(p)
         \/ CheckPermissionCall(p)
         \/ CheckPermissionFind(p)
         \/ Return(p)

SpecRevokeFrame == InitMinted /\ [][NextRevokeFrame]_vars

\* Revocations, expiry runs and checks served concurrently
NextCapabilitiesConcurrent ==
    \/ TickCapabilities
    \/ \E p \in {"adm", "p1"} :
         \/ ValidateTokenCall(p)
         \/ ValidateTokenFind(p)
         \/ ValidateTokenCheck(p)
         \/ CheckPermissionCall(p)
         \/ CheckPermissionFind(p)
         \/ RevokeCapabilityFind(p)
         \/ RevokeCapabilityRevoke(p)
         \/ RevokeAllForAgent(p)
         \/ ExpireOldCapabilities(p)
         \/ Return(p)

SpecCapabilitiesConcurrent == InitMinted /\ [][NextCapabilitiesConcurrent]_vars

\* One agent registered, the other key pair unknown, the clock at its
\* first reading
InitAuth ==
    /\ agents = {newAgentRow("k1")}
    /\ events = <<>>
    /\ now = 400000
    /\ pc = [p \in Procs |-> "idle"]
    /\ loc = [p \in Procs |-> NoLoc]
    /\ reply = [p \in Procs |-> NoReply]
    /\ rateLimitStore = emptyStore
    /\ lastEventHash = Null
    /\ reputation = [a \in {r.agentId : r \in agents} |-> freshReputation]
    /\ capabilities = <<>>

\* Requests to a signature-protected route while the agent may be revoked
NextAuth ==
    \/ TickAuth
    \/ \E p \in AdminSlots :
         \/ RevokeGetAgent(p, {Undefined})
         \/ RevokeRevoke(p)
         \/ Return(p)
    \/ \E p \in {"p1"} :
         \/ AuthCheckTimestamp(p)
         \/ AuthVerifySignature(p)
         \/ RunHandler(p)
         \/ Return(p)

SpecAuth == InitAuth /\ [][NextAuth]_vars

\* Requests to an endpoint that takes either credential
NextVerifyAuth ==
    \/ TickAuth
    \/ \E p \in {"p1"} :
         \/ VerifyAuth(p)
         \/ AuthVerifySignature(p)
         \/ RunHandler(p)
         \/ Return(p)

SpecVerifyAuth == InitAuth /\ [][NextVerifyAuth]_vars

\* One agent registered with its fresh reputation row
InitReputation ==
    /\ agents = {newAgentRow("k1")}
    /\ events = <<>>
    /\ now = 1
    /\ pc = [p \in Procs |-> "idle"]
    /\ loc = [p \in Procs |-> NoLoc]
    /\ reply = [p \in Procs |-> NoReply]
    /\ rateLimitStore = emptyStore
    /\ lastEventHash = Null
    /\ reputation = [a \in {r.agentId : r \in agents} |-> freshReputation]
    /\ capabilities = <<>>

\* Outcomes from the impact table recorded one call at a time
NextReputation ==
    \E p \in AdminSlots :
        \/ RecordOutcomeGet(p, OutcomeTypes, {NoImpact}, 0..(MaxActions - 1))
        \/ RecordOutcomeUpdate(p)
        \/ ShouldDowngrade(p)
        \/ Return(p)

SpecReputation == InitReputation /\ [][NextReputation]_vars

\* Domain scores set by two calls at a time while outcomes are recorded
NextDomainScore ==
    \/ \E p \in AgentSlots :
         \/ UpdateDomainScoreGet(p)
         \/ UpdateDomainScoreUpdate(p)
         \/ Return(p)
    \/ \E p \in AdminSlots :
         \/ RecordOutcomeGet(p, {"success", "harmful"}, {NoImpact},
                             0..(MaxDomainOutcomes - 1))
         \/ RecordOutcomeUpdate(p)
         \/ Return(p)

SpecDomainScore == InitReputation /\ [][NextDomainScore]_vars

\* Signed requests to POST /events from either agent, carrying a body for
\* either agent
NextPostEvents ==
    \E p \in {"p1"} :
        \/ PostEventsAuth(p, eventRequests(Keys, eventBodies(Keys, Keys, knownHashes)))
        \/ PostEventsFindAgent(p)
        \/ PostEventsGetLast(p)
        \/ PostEventsInsert(p)
        \/ Return(p)

SpecPostEvents == InitRegistered /\ [][NextPostEvents]_vars

\* One TrustClient of the agent, and another writer holding the same key
NextClient ==
    \/ \E p \in {"p1"} :
         \/ ClientInitRequest(p)
         \/ ClientInitResponse(p)
         \/ ClientAppendEvent(p)
         \/ ClientAppendResponse(p)
    \/ \E p \in {"p2"} :
         \/ PostEventsAuth(p, eventRequests({clientKey},
                                  eventBodies({clientKey}, {clientKey}, knownHashes)))
         \/ Return(p)
    \/ \E p \in AgentSlots :
         \/ PostEventsFindAgent(p)
         \/ PostEventsGetLast(p)
         \/ PostEventsInsert(p)

SpecClient == InitReputation /\ [][NextClient]_vars

\* Outcomes reported for an agent that appends events
NextOutcomes ==
    \/ \E p \in {"p1"} :
         \/ AppendFindAgent(p)
         \/ AppendGetLast(p)
         \/ AppendInsert(p)
         \/ Return(p)
    \/ \E p \in AdminSlots :
         \/ PostOutcomeGet(p)
         \/ PostOutcomeUpdate(p)
         \/ Return(p)

SpecOutcomes == InitReputation /\ [][NextOutcomes]_vars

\* Requests through the global rate limiter while time passes and the
\* sweep runs
NextRateLimit ==
    \/ TickRateLimit
    \/ SweepRateLimitStore
    \/ \E p \in {"p1"} :
         \/ RateLimiter(p)
         \/ Return(p)

SpecRateLimit == Init /\ [][NextRateLimit]_vars

\* Outcomes recorded by two calls at a time
NextReputationConcurrent ==
    \E p \in {"adm", "p1"} :
        \/ RecordOutcomeGet(p, {"success", "user_corrected", "harmful"}, {NoImpact},
                            0..(MaxConcurrent - 1))
        \/ RecordOutcomeUpdate(p)
        \/ Return(p)

SpecReputationConcurrent == InitReputation /\ [][NextReputationConcurrent]_vars

\* The histories after which the score sits at an end of its range: a fresh
\* agent, 25 harmful outcomes in a row (score 0), 100 successes (score 100)
SeedRows ==
    {freshReputation,
     [overallScore |-> 0, totalActions |-> 25, successRate |-> 0,
      failureRate |-> 10000, harmfulActions |-> 25, userCorrections |-> 0,
      breakdown |-> emptyBreakdown],
     [overallScore |-> 10000, totalActions |-> 100, successRate |-> 10000,
      failureRate |-> 0, harmfulActions |-> 0, userCorrections |-> 0,
      breakdown |-> emptyBreakdown]}

InitScore ==
    /\ agents = {newAgentRow("k1")}
    /\ events = <<>>
    /\ now = 1
    /\ pc = [p \in Procs |-> "idle"]
    /\ loc = [p \in Procs |-> NoLoc]
    /\ reply = [p \in Procs |-> NoReply]
    /\ rateLimitStore = emptyStore
    /\ lastEventHash = Null
    /\ reputation \in [{r.agentId : r \in agents} -> SeedRows]
    /\ capabilities = <<>>

\* Outcomes with table and custom impacts recorded on top of the seed rows
NextScore ==
    \E p \in AdminSlots :
        \/ RecordOutcomeGet(p, {"success", "failure", "harmful"},
                            {NoImpact} \cup CustomImpacts,
                            {row.totalActions + k :
                               row \in SeedRows, k \in 0..(MaxScoreCalls - 1)})
        \/ RecordOutcomeUpdate(p)
        \/ Return(p)

SpecScore == InitScore /\ [][NextScore]_vars

\* The row after 30 outcomes of type success, each with the custom impact
\* -1: the score sits on the critical threshold with nothing else wrong
ThresholdRow ==
    [overallScore |-> 2000, totalActions |-> 30, successRate |-> 10000,
     failureRate |-> 0, harmfulActions |-> 0, userCorrections |-> 0,
      breakdown |-> emptyBreakdown]

\* The row after five successes and then four harmful outcomes: one more
\* harmful outcome reaches the harmful threshold with half the actions failed
FourHarmfulRow ==
    [overallScore |-> 4450, totalActions |-> 9, successRate |-> 5556,
     failureRate |-> 4444, harmfulActions |-> 4, userCorrections |-> 0,
      breakdown |-> emptyBreakdown]

InitDowngrade ==
    /\ agents = {newAgentRow("k1")}
    /\ events = <<>>
    /\ now = 1
    /\ pc = [p \in Procs |-> "idle"]
    /\ loc = [p \in Procs |-> NoLoc]
    /\ reply = [p \in Procs |-> NoReply]
    /\ rateLimitStore = emptyStore
    /\ lastEventHash = Null
    /\ reputation \in [{r.agentId : r \in agents} ->
                        {freshReputation, ThresholdRow, FourHarmfulRow}]
    /\ capabilities = <<>>

\* The downgrade check between outcomes that move the row across each of
\* its three thresholds
NextDowngrade ==
    \E p \in AdminSlots :
        \/ RecordOutcomeGet(p, {"success", "failure", "harmful"},
                            {NoImpact, <<-1>>},
                            0..(MaxActions - 1)
                              \cup {row.totalActions + k :
                                      row \in {ThresholdRow, FourHarmfulRow},
                                      k \in 0..(MaxScoreCalls - 1)})
        \/ RecordOutcomeUpdate(p)
        \/ ShouldDowngrade(p)
        \/ Return(p)

SpecDowngrade == InitDowngrade /\ [][NextDowngrade]_vars

\* Registrations and revocations, with and without a reason, served two at
\* a time
NextAgents ==
    \/ Tick
    \/ \E p \in {"adm", "p1"} :
         \/ RegisterFindByPublicKey(p, PublicKeyHex)
         \/ RegisterCreate(p)
         \/ RevokeGetAgent(p, {Undefined, "r1", "r2"})
         \/ RevokeUpdateMetadata(p)
         \/ RevokeRevoke(p)
         \/ Return(p)

SpecAgents == Init /\ [][NextAgents]_vars

\* verifyEventChain applied to every list of up to MaxChain events
NextVerifyChain ==
    \E p \in {"p1"} :
        \/ VerifyEventChainCall(p)
        \/ Return(p)

SpecVerifyChain == Init /\ [][NextVerifyChain]_vars

\* verifyChainLinkage and verifyEventChain applied to the same lists
NextLinkage ==
    \E p \in {"p1"} :
        \/ VerifyChainLinkageCall(p)
        \/ VerifyEventChainCall(p)
        \/ Return(p)

SpecLinkage == Init /\ [][NextLinkage]_vars

\* signEvent and verifyEvent applied to every unsigned event and key pair
NextSignVerify ==
    \E p \in {"p1"} :
        \/ VerifyEventCall(p)
        \/ Return(p)

SpecSignVerify == Init /\ [][NextSignVerify]_vars

\* ---------------------------------------------------------------- properties
\* the handler in slot p ends in this step
Finishes(p) == pc[p] # "done" /\ pc'[p] = "done"

\* the agent's rows in insertion order (ORDER BY id)
RECURSIVE byId(_)
byId(rows) ==
    IF rows = {} THEN <<>>
    ELSE LET first == CHOOSE e \in rows : \A o \in rows : e.id <= o.id
         IN  <<first>> \o byId(rows \ {first})

\* a sequence of rows is linked: null first, then each to the one before
linked(chain) ==
    \A i \in 1..Len(chain) :
        IF i = 1 THEN chain[i].prevHash = Null
        ELSE chain[i].prevHash = chain[i - 1].hash

\* the agent's stored chain as verifyAgentChain hands it to verifyEventChain
signedChain(agentId) ==
    LET chain == getAgentChain(agentId)
    IN  [i \in 1..Len(chain) |-> toSignedEvent(chain[i])]

publicKeyOf(agentId) == (CHOOSE a \in findById(agentId) : TRUE).publicKey

\* C1: for every agent the stored events, read in chronological order
\* (timestamp, then id), are linked: the first has prev_hash = null and each
\* later one has prev_hash = the hash of the event right before it.
ChainWellLinked ==
    \A agentId \in AgentIds : linked(getAgentChain(agentId))

\* C2: admissions of one agent are linearizable: no two stored events of
\* the same agent carry the same prev_hash.
NoForkedChain ==
    \A e1 \in eventRows, e2 \in eventRows :
        (e1.agentId = e2.agentId /\ e1.prevHash = e2.prevHash) => e1 = e2

\* C3: every stored row's hash is the sha256 of the canonical form of its
\* own fields, and its signature verifies over those bytes under the key
\* registered for its agent, the stored timestamp included.
StoredRowsVerify ==
    \A e \in eventRows :
        verifyEvent(toSignedEvent(e), publicKeyOf(e.agentId)).valid

\* C4: after n events were admitted one after another for an agent, each
\* linked to the one admitted before it, verifyAgentChain returns valid,
\* no errors and totalEvents = n.
AdmittedChainVerifies ==
    \A a \in agents :
        LET rows == rowsOfAgent(a.agentId)
            result == verifyAgentChain(a.agentId)
        IN  linked(byId(rows)) =>
                /\ result.valid
                /\ result.errors = {}
                /\ result.totalEvents = Cardinality(rows)

\* C5: the ledger is append-only: no step of any operation changes or
\* removes a stored row; the table only grows at its end.
LedgerAppendOnly ==
    [][/\ Len(events') >= Len(events)
       /\ \A i \in 1..Len(events) : events'[i] = events[i]]_vars

\* C5 witness: the table is full and an agent with stored events was revoked
LedgerAppendOnlyWitness ==
    /\ Len(events) = MaxEvents
    /\ \E a \in agents : a.status = "revoked" /\ rowsOfAgent(a.agentId) # {}

\* C6: an appendEvent that ends with any failure leaves the events table as
\* it was; a request signed with another key pair's private key ends as a
\* failed verification naming the invalid signature, and inserts nothing.
FailedAppendPersistsNothing ==
    [][\A p \in AgentSlots :
          Finishes(p) =>
            /\ reply'[p].outcome # "ok" => events' = events
            /\ reply'[p].wrongKey =>
                 /\ reply'[p].outcome = "Event verification failed"
                 /\ "Invalid Ed25519 signature" \in reply'[p].errors
                 /\ events' = events]_vars

\* C6 witness: an otherwise correct request signed with the wrong key was
\* rejected for its signature alone
WrongKeyRejectedWitness ==
    \E p \in AgentSlots :
        /\ reply[p].op = "appendEvent"
        /\ reply[p].wrongKey
        /\ reply[p].errors = {"Invalid Ed25519 signature"}

hashesUnique ==
    \A i \in 1..Len(events), j \in 1..Len(events) :
        events[i].hash = events[j].hash => i = j

\* C7: re-submitting verbatim an event the agent already has on the ledger
\* ends with the duplicate-event outcome of the unique hash constraint, and
\* no two rows ever share a hash.
ResubmissionIsDuplicate ==
    /\ hashesUnique
    /\ \A p \in AgentSlots :
         (reply[p].op = "appendEvent" /\ reply[p].resubmitted)
            => reply[p].outcome = "duplicate key"

\* C8: for a stored chain that verifies, changing only the payload of the
\* event at 0-based index i makes verification fail with
\* firstInvalidEvent = i, for every i.
TamperDetectedAtPosition ==
    \A a \in agents :
        LET chain == signedChain(a.agentId)
        IN  verifyEventChain(chain, a.publicKey).valid =>
              \A i \in 1..Len(chain) :
                \A payload \in Payloads \ {chain[i].payload} :
                  LET tampered == [chain EXCEPT ![i].payload = payload]
                      result == verifyEventChain(tampered, a.publicKey)
                  IN  ~result.valid /\ result.firstInvalidEvent = i - 1

\* C8 witness: an agent has a verifying chain with a second event to tamper
TamperWitness ==
    \E a \in agents :
        /\ Len(signedChain(a.agentId)) >= 2
        /\ verifyEventChain(signedChain(a.agentId), a.publicKey).valid

agentActive(agentId) == \E a \in agents : a.agentId = agentId /\ a.status = "active"

\* C9: an admission goes past the agent check only for an existing active
\* agent, and every row is inserted while its agent's status is active.
InsertedWhileActive ==
    [][/\ \A p \in AgentSlots :
            (pc[p] = "idle" /\ pc'[p] = "append_getLast")
               => agentActive(loc'[p].agentId)
       /\ Len(events') > Len(events)
            => agentActive(events'[Len(events')].agentId)]_vars

\* C10: getLastEventHash is null for an agent without events and else the
\* hash of the event inserted last for that agent.
LastHashIsLastInserted ==
    \A agentId \in AgentIds :
        LET inserted == byId(rowsOfAgent(agentId))
        IN  getLastEventHash(agentId) =
                IF inserted = <<>> THEN Null ELSE inserted[Len(inserted)].hash

\* C11: an otherwise correct request whose signed prev_hash is not the hash
\* of the agent's current head ends with the chain-broken outcome, not with
\* a hash-mismatch or invalid-signature verification failure.
StaleHeadIsChainBroken ==
    \A p \in AgentSlots :
        (reply[p].op = "appendEvent" /\ reply[p].staleHead /\ ~reply[p].wrongKey)
            => reply[p].outcome = "Hash chain broken"

\* event i (0-based) of evs has a hash, signature or linkage violation
violatesAt(evs, i, publicKeyHex) ==
    LET e == evs[i + 1]
        bytes == toCanonicalJSON(prepareForSigning(e))
    IN  \/ e.hash # sha256(bytes)
        \/ e.signature # ed25519Sign(bytes, publicKeyHex)
        \/ IF i = 0 THEN e.prev_hash # Null ELSE e.prev_hash # evs[i].hash

\* C12: verifyEventChain returns totalEvents = the list length, valid iff
\* no event has a hash, signature or linkage violation, reports every
\* violating index in errors, and firstInvalidEvent is the smallest
\* violating index, absent (-1) iff the result is valid.
ChainResultComplete ==
    \A p \in AgentSlots :
        reply[p].op = "verifyEventChain" =>
            LET evs == reply[p].evs
                result == reply[p].result
                bad == {i \in 0..(Len(evs) - 1) :
                           violatesAt(evs, i, reply[p].publicKeyHex)}
            IN  /\ result.totalEvents = Len(evs)
                /\ result.valid <=> bad = {}
                /\ {e[1] : e \in result.errors} = bad
                /\ result.firstInvalidEvent =
                       IF bad = {} THEN -1 ELSE CHOOSE i \in bad : \A j \in bad : i <= j
                /\ result.firstInvalidEvent = -1 <=> result.valid

\* C12 witness: a list with violations at two indices, both reported
ChainResultWitness ==
    \E p \in AgentSlots :
        /\ reply[p].op = "verifyEventChain"
        /\ Cardinality({e[1] : e \in reply[p].result.errors}) >= 2
        /\ reply[p].result.firstInvalidEvent = 0

\* C13: validateToken returns valid = false when no capability has the
\* token's hash, when the capability is revoked, or when expires_at <= now
\* (the boundary expires_at = now included), and valid = true with the
\* record otherwise.
ValidateMatchesRule ==
    \A p \in Procs :
        reply[p].op = "validateToken" =>
            LET f == reply[p].fields
            IN  f.valid <=>
                    /\ f.capability # NoCapability
                    /\ f.capability[1].status # "revoked"
                    /\ ~(f.capability[1].expiresAt <= f.at)

\* C14: expired and revoked are terminal: no step changes the status of a
\* capability whose status is expired or revoked.
StatusTerminal ==
    [][\A i \in 1..Len(capabilities) :
          capabilities[i].status \in {"expired", "revoked"}
             => capabilities'[i].status = capabilities[i].status]_vars

\* C15: a validateToken or checkPermission call placed after a revocation
\* completed never validates the revoked capability's token and never
\* grants by the revoked capability.
RevokedStaysDenied ==
    \A p \in Procs :
        /\ reply[p].op = "validateToken" =>
              LET f == reply[p].fields
              IN  (f.capability # NoCapability /\ f.capability[1].id \in f.revokedAtCall)
                     => ~f.valid
        /\ reply[p].op = "checkPermission" =>
              LET f == reply[p].fields
              IN  f.allowed => f.by \notin f.revokedAtCall

\* C15 witness: the only capability that grants tool:write was revoked
\* before it expired, and a later check denies the action
RevokedDeniedWitness ==
    \E p \in Procs :
        /\ reply[p].op = "checkPermission"
        /\ reply[p].fields.action = "tool:write"
        /\ 2 \in reply[p].fields.revokedAtCall
        /\ reply[p].fields.at = 1
        /\ ~reply[p].fields.allowed

\* C16: checkPermission allows iff the agent has a capability with status
\* active and expires_at later than now whose scope has the key action or
\* the prefix wildcard key; the scope returned is the value under the
\* matched key; other agents' capabilities never grant.
PermissionMatchesRule ==
    [][\A p \in Procs :
          (Finishes(p) /\ reply'[p].op = "checkPermission") =>
            LET f == reply'[p].fields
                granting == {c \in capabilityRows :
                               /\ c.agentId = f.agentId
                               /\ c.status = "active"
                               /\ c.expiresAt > f.at
                               /\ \/ c.scope[f.action] # Undefined
                                  \/ c.scope[wildcardKey(f.action)] # Undefined}
            IN  /\ f.allowed <=> granting # {}
                /\ f.allowed =>
                      \E c \in granting :
                          f.scope \in {c.scope[f.action], c.scope[wildcardKey(f.action)]}]_vars

\* C17: revokeCapability's update sets status = revoked and revoked_at =
\* now, and a revoked row is never changed again, revoked_at included:
\* revoking twice, in sequence or concurrently, leaves the row of the
\* first revocation.
RevokeTwiceSameRow ==
    [][/\ \A i \in 1..Len(capabilities) :
            capabilities[i].status = "revoked" => capabilities'[i] = capabilities[i]
       /\ \A p \in Procs :
            (pc[p] = "revokeCapability_revoke" /\ pc'[p] = "done") =>
               /\ capabilities'[loc[p].capabilityId].status = "revoked"
               /\ capabilities'[loc[p].capabilityId].revokedAt = now]_vars

\* C18: every row mintCapability stores is active, has token_hash =
\* SHA-256 of the token returned and expires_at later than issued_at; a
\* mint whose expires_at is not later than the issue time stores nothing.
MintStoresValidRows ==
    [][/\ Len(capabilities') > Len(capabilities) =>
            LET row == capabilities'[Len(capabilities')]
            IN  /\ row.status = "active"
                /\ row.expiresAt > row.issuedAt
                /\ \E p \in Procs :
                      /\ Finishes(p)
                      /\ reply'[p].op = "mintCapability"
                      /\ row.tokenHash = sha256(reply'[p].fields.token)
       /\ \A p \in Procs :
            (/\ Finishes(p)
             /\ reply'[p].op = "mintCapability"
             /\ reply'[p].fields.expiresAt <= reply'[p].fields.issuedAt)
               => capabilities' = capabilities]_vars

\* C18 witness: one mint stored a row and a later one, expiring at its
\* issue time, was refused
MintRefusedWitness ==
    \E p \in Procs :
        /\ reply[p].op = "mintCapability"
        /\ reply[p].outcome = "constraint violation"
        /\ reply[p].fields.expiresAt = reply[p].fields.issuedAt
        /\ Len(capabilities) > 0

\* a finished authentication, or the handler it let through
authenticated(p) == reply[p].op \in {"verifyAgentSignature", "handler"}

\* C19: a request with all headers and a numeric timestamp is rejected as
\* out of window iff |now - ts| > W in whole seconds; |now - ts| = W passes
\* the freshness check, in the past and in the future.
FreshnessWindow ==
    \A p \in AgentSlots :
        authenticated(p) =>
            LET request == reply[p].request
                ts == request.timestamp
                diff == IF request.nowSec >= ts.value THEN request.nowSec - ts.value
                        ELSE ts.value - request.nowSec
            IN  (/\ request.agentId # Missing
                 /\ request.signature # Missing
                 /\ ts.kind = "num")
                   => (reply[p].outcome = "Timestamp expired"
                          <=> diff > signatureTimestampWindow)

\* C19 witness: a request exactly W seconds in the future reached the handler
FreshnessWitness ==
    \E p \in AgentSlots :
        /\ reply[p].op = "handler"
        /\ reply[p].request.timestamp.value - reply[p].request.nowSec
              = signatureTimestampWindow

\* C20: the handler runs iff all headers are present, the timestamp is in
\* the window, the agent exists and is active and the signature verifies
\* over METHOD:PATH:BODY:TIMESTAMP under the agent's key; every rejection
\* is 401, except 403 for a revoked agent.
AuthOutcomes ==
    \A p \in AgentSlots :
        authenticated(p) =>
            LET request == reply[p].request
                ts == request.timestamp
                headers == /\ request.agentId # Missing
                           /\ ts.kind # "missing"
                           /\ request.signature # Missing
                fresh == /\ ts.kind = "num"
                         /\ request.nowSec - ts.value <= signatureTimestampWindow
                         /\ ts.value - request.nowSec <= signatureTimestampWindow
                active == request.agent # <<>> /\ request.agent[1].status = "active"
                signed == /\ request.agent # <<>>
                          /\ request.signature =
                                ed25519Sign(signedPayload(request.method, request.url,
                                                          request.body, ts),
                                            request.agent[1].publicKey)
            IN  /\ reply[p].op = "handler" <=> (headers /\ fresh /\ active /\ signed)
                /\ reply[p].op = "verifyAgentSignature" =>
                      reply[p].status =
                          IF headers /\ fresh /\ request.agent # <<>> /\ ~active
                          THEN 403 ELSE 401

\* C21: every recordOutcome call sets overall_score to
\* clamp(old + impact, 0, 100), for table and custom impacts, so the score
\* of every row stays within [0, 100].
ScoreClamped ==
    [][/\ \A a \in DOMAIN reputation' :
            reputation'[a].overallScore \in 0..10000
       /\ \A p \in Procs :
            (pc[p] = "recordOutcome_update" /\ pc'[p] = "done") =>
               LET a == loc[p].agentId
                   impact == IF loc[p].customImpactScore = NoImpact
                             THEN OUTCOME_IMPACT_SCORES[loc[p].outcomeType]
                             ELSE loc[p].customImpactScore[1]
                   sum == reputation[a].overallScore + impact
               IN  reputation'[a].overallScore =
                       IF sum < 0 THEN 0 ELSE IF sum > 10000 THEN 10000 ELSE sum]_vars

\* C21 witness: a harmful outcome recorded at score 0 left the score at 0
ScoreClampedWitness ==
    \E a \in DOMAIN reputation, p \in Procs :
        /\ reply[p].op = "recordOutcome" /\ reply[p].outcome = "ok"
        /\ reputation[a].overallScore = 0
        /\ reputation[a].harmfulActions = 26
        /\ reputation[a].totalActions = 26

\* the rate, in ten-thousandths, that count out of total actions is stored as
proportion(count, total) ==
    IF total = 0 THEN 0 ELSE (2 * 10000 * count + total) \div (2 * total)

\* round(rate * total), the count a stored rate stands for
roundedCount(rate, total) == (2 * rate * total + 10000) \div 20000

\* C22: the stored success_rate and failure_rate are each in [0, 1], stay
\* the true proportions of successful and of failed outcomes among
\* total_actions after every recordOutcome call, and their rounded counts
\* never add up to more than total_actions.
RatesAreProportions ==
    [][/\ \A a \in DOMAIN reputation' :
            LET row == reputation'[a]
            IN  /\ row.successRate \in 0..10000
                /\ row.failureRate \in 0..10000
                /\ roundedCount(row.successRate, row.totalActions)
                     + roundedCount(row.failureRate, row.totalActions)
                       <= row.totalActions
       /\ \A p \in Procs :
            (pc[p] = "recordOutcome_update" /\ pc'[p] = "done") =>
               LET old == reputation[loc[p].agentId]
                   new == reputation'[loc[p].agentId]
                   n == old.totalActions
                   good == loc[p].outcomeType \in {"success", "partial_success"}
               IN  \A successes \in 0..n :
                       (/\ old.successRate = proportion(successes, n)
                        /\ old.failureRate = proportion(n - successes, n))
                         => /\ new.successRate
                                = proportion(successes + (IF good THEN 1 ELSE 0), n + 1)
                            /\ new.failureRate
                                = proportion(n - successes + (IF good THEN 0 ELSE 1),
                                             n + 1)]_vars

\* C23: every recordOutcome call that completes adds exactly 1 to
\* total_actions, 1 to harmful_actions iff its type is harmful and 1 to
\* user_corrections iff its type is user_corrected, also when calls for
\* the same agent overlap: no update is lost.
NoOutcomeLost ==
    [][\A p \in Procs :
          (pc[p] = "recordOutcome_update" /\ pc'[p] = "done") =>
             LET old == reputation[loc[p].agentId]
                 new == reputation'[loc[p].agentId]
                 type == loc[p].outcomeType
             IN  /\ new.totalActions = old.totalActions + 1
                 /\ new.harmfulActions
                      = old.harmfulActions + (IF type = "harmful" THEN 1 ELSE 0)
                 /\ new.userCorrections
                      = old.userCorrections
                          + (IF type = "user_corrected" THEN 1 ELSE 0)]_vars

\* C24: shouldDowngrade answers true, with a reason, iff overall_score < 20
\* or failure_rate > 0.5 or harmful_actions >= 5 in the row it reads, and
\* false otherwise; it changes no table.
DowngradeRule ==
    [][\A p \in Procs :
          (/\ pc[p] = "idle"
           /\ reply'[p].op = "shouldDowngrade"
           /\ reply'[p].outcome = "ok") =>
             LET row == reply'[p].reputation
                 result == reply'[p].result
             IN  /\ \E a \in DOMAIN reputation : reputation[a] = row
                 /\ result.shouldDowngrade
                      <=> \/ row.overallScore < 2000
                          \/ row.failureRate > 5000
                          \/ row.harmfulActions >= 5
                 /\ result.shouldDowngrade <=> result.reason # <<>>
                 /\ UNCHANGED <<agents, events, capabilities, reputation>>]_vars

\* C24 witness: a row with failure_rate exactly 0.5, a score of at least 20
\* and fewer than 5 harmful actions was checked and not downgraded
DowngradeBoundaryWitness ==
    \E p \in Procs :
        /\ reply[p].op = "shouldDowngrade"
        /\ reply[p].outcome = "ok"
        /\ reply[p].reputation.failureRate = 5000
        /\ reply[p].reputation.overallScore >= 2000
        /\ reply[p].reputation.harmfulActions < 5
        /\ ~reply[p].result.shouldDowngrade

\* the rows of a fresh agent after one success and then k harmful outcomes:
\* score 50.5 - 2k, k + 1 actions, k of them harmful
afterSuccessAndHarmful(row, k) ==
    /\ row.overallScore = 5050 - 200 * k
    /\ row.totalActions = k + 1
    /\ row.harmfulActions = k
    /\ row.userCorrections = 0

\* the downgrade checks answered on such a row
checkedAfter(p, k) ==
    /\ reply[p].op = "shouldDowngrade"
    /\ reply[p].outcome = "ok"
    /\ afterSuccessAndHarmful(reply[p].reputation, k)

\* after success and one harmful outcome: 48.5, 2 actions, rates 0.5 and 0.5
rowAfterTwo(row) ==
    afterSuccessAndHarmful(row, 1) =>
        /\ row.overallScore = 4850
        /\ row.successRate = 5000
        /\ row.failureRate = 5000

\* C25 as stated: after success and harmful the row is 48.5 / 2 / 0.5 / 0.5
\* / 1; shouldDowngrade is false until the fifth harmful outcome and then
\* true with the reason 'Too many harmful actions: 5'.
ScenarioDowngradesAtFifthHarmful ==
    /\ \A a \in DOMAIN reputation : rowAfterTwo(reputation[a])
    /\ \A p \in Procs :
          /\ \A k \in 0..4 : checkedAfter(p, k) => ~reply[p].result.shouldDowngrade
          /\ checkedAfter(p, 5) =>
                /\ reply[p].result.shouldDowngrade
                /\ reply[p].result.reason = <<"Too many harmful actions: ", 5>>

\* C25 amended: after success and harmful the row is 48.5 / 2 / 0.5 / 0.5 /
\* 1 and is not downgraded; shouldDowngrade first becomes true at the second
\* harmful outcome, where failure_rate is 0.6667, and stays true; at the
\* fifth harmful outcome the reason is 'Failure rate too high: 0.8333'.
ScenarioDowngradesAtSecondHarmful ==
    /\ \A a \in DOMAIN reputation : rowAfterTwo(reputation[a])
    /\ \A p \in Procs :
          /\ \A k \in 0..1 : checkedAfter(p, k) => ~reply[p].result.shouldDowngrade
          /\ checkedAfter(p, 2) =>
                /\ reply[p].result.shouldDowngrade
                /\ reply[p].result.reason = <<"Failure rate too high: ", 6667>>
          /\ \A k \in 3..5 : checkedAfter(p, k) => reply[p].result.shouldDowngrade
          /\ checkedAfter(p, 5) =>
                reply[p].result.reason = <<"Failure rate too high: ", 8333>>

\* C25 witness: the downgrade check ran after success and five harmful outcomes
ScenarioWitness ==
    \E p \in Procs : checkedAfter(p, 5)

\* C26: there is at most one agent row per public key, whatever the
\* interleaving of registerAgent calls; a registration of a key that is
\* already registered is rejected and stores nothing; every row has
\* agent_id = SHA-256 of the bytes its public_key decodes to, and is active
\* when it is created.
OneAgentPerKey ==
    [][/\ \A a, b \in agents' :
            (\/ a.publicKey = b.publicKey
             \/ bufferFromHex(a.publicKey) = bufferFromHex(b.publicKey)) => a = b
       /\ \A a \in agents' :
            /\ a.agentId = <<"sha256", bufferFromHex(a.publicKey)>>
            /\ a.publicKey \notin {b.publicKey : b \in agents} => a.status = "active"
       /\ \A p \in Procs :
            (/\ Finishes(p)
             /\ reply'[p].op = "registerAgent"
             /\ pc[p] = "register_create"
             /\ \E a \in agents :
                   bufferFromHex(a.publicKey) = bufferFromHex(loc[p].publicKey))
               => /\ reply'[p].outcome # "ok"
                  /\ agents' = agents]_vars

\* C26 witness: a registration that found the key free lost the race to
\* another one and was refused by the table
RegistrationRaceWitness ==
    \E p \in Procs :
        /\ reply[p].op = "registerAgent"
        /\ reply[p].outcome = "duplicate key"
        /\ Cardinality(agents) = 1

\* C27: revoked_at is set iff the status is revoked, and an agent that is
\* revoked never becomes active again: active -> revoked is the only
\* status transition.
AgentStatusTerminal ==
    [][/\ \A a \in agents' : a.revokedAt # NoTs <=> a.status = "revoked"
       /\ \A a \in agents :
            a.status = "revoked" =>
               \A b \in agents' : b.agentId = a.agentId => b.status = "revoked"
       /\ \A a \in agents, b \in agents' :
            (a.agentId = b.agentId /\ a.status # b.status)
               => a.status = "active" /\ b.status = "revoked"]_vars

\* C27 witness: an agent was revoked by revokeAgent
AgentRevokedWitness ==
    \E a \in agents, p \in Procs :
        /\ a.status = "revoked"
        /\ a.revokedAt # NoTs
        /\ reply[p].op = "revokeAgent"
        /\ reply[p].outcome = "ok"

\* C28: once an agent is revoked its row never changes again: a further
\* revokeAgent, after or concurrently with the first, is rejected and
\* leaves revoked_at and metadata as the first revoke wrote them.
RevokedAgentRowFrozen ==
    [][/\ \A a \in agents : a.status = "revoked" => a \in agents'
       /\ \A p \in Procs :
            (/\ Finishes(p)
             /\ reply'[p].op = "revokeAgent"
             /\ pc[p] = "revoke_revoke"
             /\ \E a \in agents : a.agentId = loc[p].agentId /\ a.status = "revoked")
               => reply'[p].outcome # "ok"]_vars

\* C29: verifyEvent(signEvent(e, sk), pk(sk)) is valid with no errors;
\* under the public key of another key pair it is invalid with at least one
\* error; and a signed event changed in any one field, its hash or its
\* signature is invalid under pk(sk).
SignVerifyRoundTrip ==
    \A p \in AgentSlots :
        reply[p].op = "verifyEvent" =>
            LET r == reply[p]
            IN  /\ (r.event = r.signed /\ r.publicKeyHex = r.privateKey)
                      => r.result.valid /\ r.result.errors = {}
                /\ (r.event = r.signed /\ r.publicKeyHex # r.privateKey)
                      => ~r.result.valid /\ r.result.errors # {}
                /\ (r.event # r.signed /\ r.publicKeyHex = r.privateKey)
                      => ~r.result.valid

\* the status a capability would have had the expire sweep run at time t
sweptStatus(capability, t) ==
    IF capability.status = "active" /\ capability.expiresAt <= t
    THEN "expired" ELSE capability.status

\* C30: validateToken and checkPermission answer at every instant t as if
\* expireOldCapabilities had run at t: a token is valid only if its
\* capability would still be active after the sweep, and a permission is
\* granted only by a capability that would still be active after it.
SweepInvisible ==
    \A p \in Procs :
        /\ (reply[p].op = "validateToken" /\ reply[p].fields.capability # NoCapability)
              => LET f == reply[p].fields
                 IN  f.valid <=> sweptStatus(f.capability[1], f.at) = "active"
        /\ (reply[p].op = "checkPermission" /\ reply[p].fields.allowed)
              => LET f == reply[p].fields
                 IN  sweptStatus([capabilities[f.by] EXCEPT !.status = "active"], f.at)
                        = "active"

\* the request carries a signature of a registered, active agent over its
\* own method, path, body and timestamp, inside the window
validAgentSignature(request) ==
    /\ request.agentId # Missing
    /\ request.timestamp.kind = "num"
    /\ request.nowSec - request.timestamp.value <= signatureTimestampWindow
    /\ request.timestamp.value - request.nowSec <= signatureTimestampWindow
    /\ \E a \in agents :
          /\ a.agentId = request.agentId
          /\ a.status = "active"
          /\ request.signature =
                ed25519Sign(signedPayload(request.method, request.url, request.body,
                                          request.timestamp), a.publicKey)

\* C31: verifyAuth lets a request through iff it carries the service key or
\* a valid agent signature, whatever else it carries, and answers 401 to a
\* request with neither credential.
EitherCredentialAccepted ==
    \A p \in AgentSlots :
        reply[p].op \in {"verifyAuth", "verifyServiceKey", "verifyAgentSignature",
                         "handler"} =>
            LET request == reply[p].request
            IN  /\ reply[p].op = "handler"
                      <=> \/ request.serviceKey = serviceApiKey
                          \/ validAgentSignature(request)
                /\ (/\ request.serviceKey = Missing
                     /\ request.agentId = Missing
                     /\ request.timestamp.kind = "missing"
                     /\ request.signature = Missing)
                      => reply[p].op # "handler" /\ reply[p].status = 401

\* the first event has no predecessor and every later one names the hash
\* field of the event before it
wellLinked(evs) ==
    \/ Len(evs) = 0
    \/ /\ evs[1].prev_hash = Null
       /\ \A i \in 2..Len(evs) : evs[i].prev_hash = evs[i - 1].hash

\* C32: verifyChainLinkage returns valid exactly for the empty list and for
\* the lists whose first prev_hash is null and whose every later prev_hash is
\* the hash field of the event before, whatever the signatures and hashes
\* are; every list verifyEventChain accepts under some key it accepts too.
LinkageOnly ==
    \A p \in AgentSlots :
        /\ reply[p].op = "verifyChainLinkage" =>
              /\ reply[p].result.valid <=> wellLinked(reply[p].evs)
              /\ \A publicKeyHex \in Keys :
                    verifyEventChain(reply[p].evs, publicKeyHex).valid
                        => reply[p].result.valid
        /\ (reply[p].op = "verifyEventChain" /\ reply[p].result.valid) =>
              verifyChainLinkage(reply[p].evs).valid

\* a list of two events with a changed payload, which no key verifies, is
\* found well linked
LinkageOnlyWitness ==
    \E p \in AgentSlots :
        /\ reply[p].op = "verifyChainLinkage"
        /\ Len(reply[p].evs) = 2
        /\ reply[p].result.valid
        /\ \A publicKeyHex \in Keys :
              ~verifyEventChain(reply[p].evs, publicKeyHex).valid

\* the columns of a reputation row other than breakdown
otherColumns(row) ==
    <<row.overallScore, row.totalActions, row.successRate, row.failureRate,
      row.harmfulActions, row.userCorrections>>

\* C33: the write of updateDomainScore(agent, domain, score) sets
\* breakdown[domain] = score and leaves the other domains and the six other
\* columns as they were; once two calls for different domains of one agent
\* have both completed, the second write keeping the score the first call
\* stored, both domains hold their new scores.
DomainScoresKept ==
    [][\A p \in AgentSlots :
          (pc[p] = "updateDomainScore_update" /\ pc'[p] = "done") =>
             LET a == loc[p].agentId
                 old == reputation[a]
                 new == reputation'[a]
             IN  /\ new.breakdown[loc[p].domain] = loc[p].score
                 /\ \A d \in DOMAIN old.breakdown \ {loc[p].domain} :
                       d \in DOMAIN new.breakdown /\ new.breakdown[d] = old.breakdown[d]
                 /\ otherColumns(new) = otherColumns(old)
                 /\ \A q \in AgentSlots \ {p} :
                       (/\ reply[q].op = "updateDomainScore"
                        /\ reply[q].outcome = "ok"
                        /\ reply[q].agentId = a
                        /\ reply[q].domain # loc[p].domain
                        /\ old.breakdown[reply[q].domain] = reply[q].score) =>
                          /\ reply[q].domain \in DOMAIN new.breakdown
                          /\ new.breakdown[reply[q].domain] = reply[q].score]_vars

\* the event a body names is a stored event of the body's agent
referencesEvent(body) ==
    \E e \in eventRows : e.id = body.eventId /\ e.agentId = body.agentId

seenInWindow(key) ==
    IF key \in DOMAIN rateLimitStore /\ now <= rateLimitStore[key].resetAt
    THEN rateLimitStore[key].count ELSE 0

\* when the window of the key's next request ends
windowEnd(key) ==
    IF key \in DOMAIN rateLimitStore /\ now <= rateLimitStore[key].resetAt
    THEN rateLimitStore[key].resetAt ELSE now + windowMs

\* C35: per key a request is let through iff fewer than maxRequests were
\* counted since the bucket was created and now <= resetAt; every other one
\* gets 429 with retryAfter = ceil((resetAt - now) / 1000); each request is
\* counted once in its own key's window only; the sweep removes only buckets
\* ended more than 60 s before and changes no key's count or window.
RateLimitWindow ==
    [][/\ \A p \in AgentSlots, key \in RateKeys :
            (pc[p] = "idle" /\ reply'[p].op = "rateLimiter"
                            /\ reply'[p].key = key) =>
                LET r == reply'[p]
                IN  /\ r.status = 200 <=> seenInWindow(key) < maxRequests
                    /\ r.status # 200 =>
                          /\ r.status = 429
                          /\ r.retryAfter * 1000 >= windowEnd(key) - now
                          /\ (r.retryAfter - 1) * 1000 < windowEnd(key) - now
                    /\ seenInWindow(key)' = seenInWindow(key) + 1
                    /\ windowEnd(key)' = windowEnd(key)
                    /\ \A k \in RateKeys \ {key} :
                          /\ seenInWindow(k)' = seenInWindow(k)
                          /\ windowEnd(k)' = windowEnd(k)
       /\ (pc' = pc /\ now' = now) =>
            \A k \in RateKeys :
                /\ seenInWindow(k)' = seenInWindow(k)
                /\ windowEnd(k)' = windowEnd(k)
                /\ (k \in DOMAIN rateLimitStore /\ k \notin DOMAIN rateLimitStore') =>
                      now > rateLimitStore[k].resetAt + 60000]_vars

\* a request beyond the limit was refused with a retryAfter rounded up, and
\* the sweep has since removed another key's ended bucket
RateLimitWitness ==
    \E p \in AgentSlots :
        /\ reply[p].op = "rateLimiter"
        /\ reply[p].status = 429
        /\ reply[p].retryAfter * 1000 > reply[p].resetAt - reply[p].at
        /\ DOMAIN rateLimitStore = {reply[p].key}

\* C36: every event row POST /events inserts belongs to the agent the
\* request's signature proved: the X-Agent-Id that passed
\* verifyAgentSignature is the agentId of the stored row.
EventsOnlyForAuthenticatedAgent ==
    [][\A p \in AgentSlots :
          (pc[p] = "postEvents_insert" /\ events' # events) =>
              events'[Len(events')].agentId = loc[p].agentId]_vars

\* C37: revokeAgent is atomic: in no reachable state does an agent's
\* metadata carry a revocation_reason while its status is still active, so
\* no concurrent reader of the row can see one.
RevocationAtomic ==
    \A a \in agents :
        a.metadata.revocation_reason # Undefined => a.status = "revoked"

\* the client's request slot, and the head the server would link to
clientSlot == "p1"
serverHead == getLastEventHash(clientAgentId)

\* what C38 says of lastEventHash and of appends over a stale head
clientKeepsHash ==
    /\ lastEventHash' # lastEventHash =>
          \/ pc[clientSlot] = "init_response" /\ lastEventHash' = loc[clientSlot].lastHash
          \/ /\ pc[clientSlot] = "done"
             /\ reply[clientSlot].status = 201
             /\ lastEventHash' = reply[clientSlot].event[1].hash
    /\ (/\ pc[clientSlot] = "done" /\ pc'[clientSlot] = "idle"
        /\ reply[clientSlot].status # 201) => lastEventHash' = lastEventHash
    /\ (/\ pc[clientSlot] = "done" /\ pc'[clientSlot] = "idle"
        /\ reply[clientSlot].status = 201) =>
            lastEventHash' = reply[clientSlot].event[1].hash
    /\ (serverHead # lastEventHash /\ lastEventHash' = lastEventHash) =>
          serverHead' # lastEventHash'
    /\ (pc[clientSlot] = "postEvents_getLast" /\ pc'[clientSlot] # "postEvents_getLast") =>
          (pc'[clientSlot] = "postEvents_insert" <=> serverHead = lastEventHash)
    /\ (pc[clientSlot] = "postEvents_insert" /\ pc'[clientSlot] = "done") =>
          (reply'[clientSlot].status = 201
              <=> ~hashTaken(loc[clientSlot].request.body.hash))

RevokeAgentFrame ==
    [][\A p \in Procs :
          (pc[p] \in {"revoke_updateMetadata", "revoke_revoke"} /\ pc'[p] # pc[p]) =>
              /\ \A a \in agents : a.agentId # loc[p].agentId => a \in agents'
              /\ {a.agentId : a \in agents'} = {a.agentId : a \in agents}
              /\ UNCHANGED <<capabilities, reputation, events>>
              /\ \A token \in tokensPresented : validateToken(token)' = validateToken(token)
              /\ \A agentId \in AgentIds, action \in Actions :
                    checkPermission(agentId, action)' = checkPermission(agentId, action)]_vars

\* a token of an agent is found valid while the agent is revoked
RevokeAgentFrameWitness ==
    \E p \in AgentSlots :
        /\ reply[p].op = "validateToken"
        /\ reply[p].fields.valid
        /\ \E a \in agents :
              /\ a.status = "revoked"
              /\ a.agentId = reply[p].fields.capability[1].agentId
====
